---- MODULE Spec2Model ----
(***************************************************************************)
(* Dispatch engine of the campaign tool (frontend/src/lib/api.ts):         *)
(* sendCampaign runs one job per task through withConcurrency(jobs, 5).    *)
(* JavaScript runs the code between two awaits atomically, so each action  *)
(* below is one such run: the synchronous prefix of sendCampaign, the      *)
(* continuation of a job after its sendEmailOne settles, the continuation  *)
(* of a worker after its job settles, and the continuation of sendCampaign *)
(* after Promise.all settles.                                              *)
(***************************************************************************)
EXTENDS Integers, Sequences, FiniteSets, Bags, TLC

\* ---------------------------------------------------------------- bounds
MaxTasks == 6
MaxMalformedTasks == 3
MaxRows == 3
MaxAgeRows == 3
MaxEnumRows == 10
MaxCsvRows == 2
MaxRowLen == 2
MaxFields == 2
MaxValueLen == 3
MaxWords == 2
MaxPieces == 3
MaxReentrantTasks == 2

\* ------------------------------------------------------------ constants
\* withConcurrency(jobs, 5)
ConcurrencyLimit == 5

\* ---------------------------------------------------------------- inputs
\* CampaignSendTask values the caller may pass: { email, recipient, subject }
TaskA == [email |-> [htmlContent |-> "<h1>Hello</h1>"], recipient |-> "a@example.com", subject |-> "Hi A"]
TaskB == [email |-> [htmlContent |-> "<p>World</p>"],   recipient |-> "b@example.com", subject |-> "Hi B"]
TaskPool == {TaskA, TaskB}

\* The caller pushes the tasks of one email after the other; the lists tried
\* alternate between two pool tasks (the same one twice included).
TaskLists ==
  { [i \in 1..k |-> IF i % 2 = 1 THEN odd ELSE even] :
      k \in 0..MaxTasks, odd \in TaskPool, even \in TaskPool }

\* What fetch("/v1/email/send") can resolve with: a 2xx response, or a
\* non-2xx response whose JSON body carries the provider's detail.
Responses ==
  { [ok |-> TRUE,  status |-> 200, statusText |-> "OK",          json |-> "object", body |-> [status |-> "sent"]],
    [ok |-> FALSE, status |-> 502, statusText |-> "Bad Gateway", json |-> "object", body |-> [detail |-> "Provider error"]] }

VARIABLES
  pc,        \* position of the sendCampaign call: idle, running, returned, rejected
  tasks,     \* the argument of sendCampaign
  queue,     \* withConcurrency: queue (jobs not yet shifted, as task indices)
  jobs,      \* state of the promise of each job: created, awaiting, fulfilled, rejected
  workers,   \* withConcurrency: workers, the bag of runNext chains (their order is never used)
  results,   \* withConcurrency: results
  sent,      \* sendCampaign: sent
  failed,    \* sendCampaign: failed
  requests,  \* every sendEmailOne call made so far, in call order
  outcome,   \* how the send of each task settled: none, ok, error
  result,    \* the value sendCampaign resolved with
  op,        \* the synchronous function last called on its own: none, or its name
  arg,       \* the argument of that call
  ret,       \* what that call returned
  store,     \* campaigns-list store: campaigns
  flow,      \* campaign store: generatedEmails, emailAssignments
  ui,        \* the route shown, the state of its page component, the handleSend in flight
  other      \* the variables of a second sendCampaign call on the same event loop

dispatch == <<pc, tasks, queue, jobs, workers, results, sent, failed, requests, outcome, result>>
calc == <<op, arg, ret>>
app == <<store, flow, ui>>
vars == <<dispatch, calc, app, other>>

Min(a, b) == IF a < b THEN a ELSE b

\* ------------------------------------------------------------ sendEmailOne
\* A fetch response: ok, status, statusText, and what res.json() gives:
\* json = "object" (body is the parsed object), "null" (the body is the JSON
\* value null) or "invalid" (res.json() rejects).  Null stands for a JSON
\* null inside an object.
Null == "(null)"

\* obj[key] ?? default
Coalesce(obj, key, default) ==
  IF key \in DOMAIN obj /\ obj[key] # Null THEN obj[key] ELSE default

\* Variant: the status text is always preferred to the body's detail.
sendEmailOneStatusFirst(res) ==
  IF res.ok
    THEN [threw |-> FALSE, message |-> ""]
    ELSE [threw |-> TRUE, message |-> res.statusText]

\* if (!res.ok) { errBody = await res.json().catch(() => ({detail: statusText}));
\*                throw new Error(errBody.detail ?? `HTTP ${status}`) }
\* Reading .detail of a null body throws a TypeError instead.
sendEmailOne(res) ==
  IF res.ok
    THEN [threw |-> FALSE, message |-> ""]
    ELSE IF res.json = "null"
      THEN [threw |-> TRUE, message |-> "Cannot read properties of null (reading 'detail')"]
      ELSE LET errBody == IF res.json = "object" THEN res.body ELSE [detail |-> res.statusText]
           IN  [threw   |-> TRUE,
                message |-> Coalesce(errBody, "detail", "HTTP " \o ToString(res.status))]

\* The payload a job hands to sendEmailOne.
Payload(task) ==
  [to |-> task.recipient, subject |-> task.subject, html |-> task.email.htmlContent]

\* Variant: the catch block swallows the error without recording it.
JobAfterSendSwallow(acc, task, out) ==
  [sent    |-> IF out.threw THEN acc.sent ELSE acc.sent + 1,
   failed  |-> acc.failed,
   settled |-> "fulfilled"]

\* Variant: no try/catch, a failed send rejects the job.
JobAfterSendNoCatch(acc, task, out) ==
  [sent    |-> IF out.threw THEN acc.sent ELSE acc.sent + 1,
   failed  |-> acc.failed,
   settled |-> IF out.threw THEN "rejected" ELSE "fulfilled"]

\* Variant: sent++ sits in a finally block and counts failed sends too.
JobAfterSendCountAll(acc, task, out) ==
  [sent    |-> acc.sent + 1,
   failed  |-> IF out.threw
                 THEN Append(acc.failed, [recipient |-> task.recipient, error |-> out.message])
                 ELSE acc.failed,
   settled |-> "fulfilled"]

\* Variant: failed.unshift(..) instead of failed.push(..).
JobAfterSendUnshift(acc, task, out) ==
  [sent    |-> IF out.threw THEN acc.sent ELSE acc.sent + 1,
   failed  |-> IF out.threw
                 THEN <<[recipient |-> task.recipient, error |-> out.message]>> \o acc.failed
                 ELSE acc.failed,
   settled |-> "fulfilled"]

\* The body of a job after its sendEmailOne call settled with `out`:
\* try { await sendEmailOne(..); sent++ } catch (err) { failed.push({recipient, error}) }
JobAfterSend(acc, task, out) ==
  IF out.threw
    THEN [sent    |-> acc.sent,
          failed  |-> Append(acc.failed, [recipient |-> task.recipient, error |-> out.message]),
          settled |-> "fulfilled"]
    ELSE [sent    |-> acc.sent + 1,
          failed  |-> acc.failed,
          settled |-> "fulfilled"]

\* ---------------------------------------------------------- withConcurrency
\* Variant: one worker per task, the limit is ignored.
WorkerCountUnbounded(limit, len) == len

\* Variant: a single worker, the jobs run one after the other.
WorkerCountOne(limit, len) == Min(1, len)

\* Array.from({ length: Math.min(limit, tasks.length) }, ...)
WorkerCount(limit, len) == Min(limit, len)

\* The synchronous start of a job: the payload of its sendEmailOne call is
\* built inside the try block, and reading task.email.htmlContent of a task
\* that has no email throws a TypeError there.
JobStart(task) ==
  IF "email" \in DOMAIN task
    THEN [threw |-> FALSE, message |-> ""]
    ELSE [threw |-> TRUE, message |-> "Cannot read properties of undefined (reading 'htmlContent')"]

\* runNext found the queue empty: the worker is done.
WorkerDone(st) ==
  [queue |-> st.queue, jobs |-> st.jobs, requests |-> st.requests,
   sent |-> st.sent, failed |-> st.failed, outcome |-> st.outcome,
   worker |-> [state |-> "fulfilled", job |-> 0]]

\* runNext calls job j, leaving q queued: either the job calls sendEmailOne
\* and awaits it, or building the payload threw and the job has already run
\* its catch block.  The worker awaits the job in both cases.
TakeJob(st, ts, j, q) ==
  LET start == JobStart(ts[j])
      r     == JobAfterSend([sent |-> st.sent, failed |-> st.failed], ts[j], start)
  IN  IF start.threw
        THEN [queue    |-> q,
              jobs     |-> [st.jobs EXCEPT ![j] = r.settled],
              requests |-> st.requests,
              sent     |-> r.sent,
              failed   |-> r.failed,
              outcome  |-> [st.outcome EXCEPT ![j] = "error"],
              worker   |-> [state |-> "awaiting", job |-> j]]
        ELSE [queue    |-> q,
              jobs     |-> [st.jobs EXCEPT ![j] = "awaiting"],
              requests |-> Append(st.requests, [job |-> j] @@ Payload(ts[j])),
              sent     |-> st.sent,
              failed   |-> st.failed,
              outcome  |-> st.outcome,
              worker   |-> [state |-> "awaiting", job |-> j]]

\* Variant: queue[0] instead of queue.shift(), the job stays queued.
runNextNoShift(st, ts) ==
  IF Len(st.queue) = 0
    THEN WorkerDone(st)
    ELSE TakeJob(st, ts, Head(st.queue), st.queue)

\* Variant: the started job is pushed back to the end of the queue.
runNextRequeue(st, ts) ==
  IF Len(st.queue) = 0
    THEN WorkerDone(st)
    ELSE TakeJob(st, ts, Head(st.queue), Append(Tail(st.queue), Head(st.queue)))

\* Variant: `queue.length <= 1` in the guard, the last queued job is never taken.
runNextOffByOne(st, ts) ==
  IF Len(st.queue) <= 1
    THEN WorkerDone(st)
    ELSE TakeJob(st, ts, Head(st.queue), Tail(st.queue))

\* Variant: queue.pop(), the last queued job is taken first.
runNextPop(st, ts) ==
  IF Len(st.queue) = 0
    THEN WorkerDone(st)
    ELSE TakeJob(st, ts, st.queue[Len(st.queue)], SubSeq(st.queue, 1, Len(st.queue) - 1))

\* One call of runNext up to its first await:
\* if (queue.length === 0) return; const task = queue.shift()!; await task()
\* st holds the variables it can touch; the result adds the state the
\* calling worker is left in.
runNext(st, ts) ==
  IF Len(st.queue) = 0
    THEN WorkerDone(st)
    ELSE TakeJob(st, ts, Head(st.queue), Tail(st.queue))

\* The n synchronous runNext calls that create the workers.
RECURSIVE StartWorkers(_, _, _)
StartWorkers(st, ts, n) ==
  IF n = 0
    THEN [queue |-> st.queue, jobs |-> st.jobs, requests |-> st.requests,
          sent |-> st.sent, failed |-> st.failed, outcome |-> st.outcome,
          workers |-> EmptyBag]
    ELSE LET prev == StartWorkers(st, ts, n - 1)
             r    == runNext(prev, ts)
         IN  [queue |-> r.queue, jobs |-> r.jobs, requests |-> r.requests,
              sent |-> r.sent, failed |-> r.failed, outcome |-> r.outcome,
              workers |-> prev.workers (+) SetToBag({r.worker})]

\* Variant: Promise.race(workers), settled with the first worker that settles
\* (and never settled for an empty array).
PromiseRace(ws) ==
  IF \E w \in BagToSet(ws) : w.state = "rejected" THEN "rejected"
  ELSE IF \E w \in BagToSet(ws) : w.state = "fulfilled" THEN "fulfilled"
  ELSE "pending"

\* await Promise.all(workers): rejected as soon as one worker is rejected,
\* fulfilled when all are fulfilled, pending otherwise.
PromiseAll(ws) ==
  IF \E w \in BagToSet(ws) : w.state = "rejected" THEN "rejected"
  ELSE IF \A w \in BagToSet(ws) : w.state = "fulfilled" THEN "fulfilled"
  ELSE "pending"

\* ================================================================ strings
\* A JavaScript string is modelled as the sequence of its characters (the two
\* non-ASCII ones the code uses are written "U+2013" and "U+00B7").  Where
\* the code only trims and copies a value (email addresses, date strings) a
\* run of non-space characters may stand as one element.
WhiteSpace == {" ", "\t", "\n", "\r"}

RECURSIVE TrimStart(_)
TrimStart(s) ==
  IF s = <<>> THEN s
  ELSE IF Head(s) \in WhiteSpace THEN TrimStart(Tail(s)) ELSE s

RECURSIVE TrimEnd(_)
TrimEnd(s) ==
  IF s = <<>> THEN s
  ELSE IF s[Len(s)] \in WhiteSpace THEN TrimEnd(SubSeq(s, 1, Len(s) - 1)) ELSE s

\* Variant: trim() that only strips the start of the string.
TrimOnlyStart(s) == TrimStart(s)

\* String.prototype.trim
Trim(s) == TrimEnd(TrimStart(s))

UpperToLower ==
  [c \in {"A", "B", "C", "D", "E", "F", "G", "H", "I", "J", "K", "L", "M",
          "N", "O", "P", "Q", "R", "S", "T", "U", "V", "W", "X", "Y", "Z"} |->
     CASE c = "A" -> "a" [] c = "B" -> "b" [] c = "C" -> "c" [] c = "D" -> "d"
       [] c = "E" -> "e" [] c = "F" -> "f" [] c = "G" -> "g" [] c = "H" -> "h"
       [] c = "I" -> "i" [] c = "J" -> "j" [] c = "K" -> "k" [] c = "L" -> "l"
       [] c = "M" -> "m" [] c = "N" -> "n" [] c = "O" -> "o" [] c = "P" -> "p"
       [] c = "Q" -> "q" [] c = "R" -> "r" [] c = "S" -> "s" [] c = "T" -> "t"
       [] c = "U" -> "u" [] c = "V" -> "v" [] c = "W" -> "w" [] c = "X" -> "x"
       [] c = "Y" -> "y" [] c = "Z" -> "z"]

\* String.prototype.toLowerCase
ToLowerCase(s) ==
  [i \in 1..Len(s) |-> IF s[i] \in DOMAIN UpperToLower THEN UpperToLower[s[i]] ELSE s[i]]

LowerAlnum ==
  {"a", "b", "c", "d", "e", "f", "g", "h", "i", "j", "k", "l", "m", "n", "o", "p",
   "q", "r", "s", "t", "u", "v", "w", "x", "y", "z",
   "0", "1", "2", "3", "4", "5", "6", "7", "8", "9"}

\* s.replace(/\s+/g, "_"): every run of white space becomes one underscore.
RECURSIVE ReplaceSpaceRuns(_)
ReplaceSpaceRuns(s) ==
  IF s = <<>> THEN <<>>
  ELSE IF Head(s) \in WhiteSpace
    THEN <<"_">> \o ReplaceSpaceRuns(TrimStart(s))
    ELSE <<Head(s)>> \o ReplaceSpaceRuns(Tail(s))

\* s.replace(/[^a-z0-9]/g, "_"): every other character becomes an underscore.
ReplaceNonAlnum(s) ==
  [i \in 1..Len(s) |-> IF s[i] \in LowerAlnum THEN s[i] ELSE "_"]

DigitChar == <<"0", "1", "2", "3", "4", "5", "6", "7", "8", "9">>

\* `${n}` for a number n >= 0
RECURSIVE NumberToString(_)
NumberToString(n) ==
  IF n < 10 THEN <<DigitChar[n + 1]>>
  ELSE NumberToString(n \div 10) \o <<DigitChar[(n % 10) + 1]>>

DigitValue(c) == CHOOSE d \in 0..9 : DigitChar[d + 1] = c

IsDigit(c) == \E d \in 1..10 : DigitChar[d] = c

\* A JavaScript number: NaN, or a value.
NaN == [isNaN |-> TRUE, value |-> 0]
Num(n) == [isNaN |-> FALSE, value |-> n]

RECURSIVE DigitPrefixValue(_, _)
DigitPrefixValue(s, acc) ==
  IF s = <<>> \/ ~IsDigit(Head(s)) THEN acc
  ELSE DigitPrefixValue(Tail(s), 10 * acc + DigitValue(Head(s)))

\* parseInt(s, 10): leading white space, an optional sign, then the longest
\* run of digits; NaN when there is no digit there.
ParseInt(s) ==
  LET t    == TrimStart(s)
      neg  == t # <<>> /\ Head(t) = "-"
      body == IF t # <<>> /\ Head(t) \in {"-", "+"} THEN Tail(t) ELSE t
  IN  IF body = <<>> \/ ~IsDigit(Head(body)) THEN NaN
      ELSE IF neg THEN Num(0 - DigitPrefixValue(body, 0)) ELSE Num(DigitPrefixValue(body, 0))

\* ============================================================ CSV parser
\* Variant: a quote always toggles inQuote, "" inside a quoted field is not
\* read as one quote.
RECURSIVE ScanRowNoEscape(_, _, _, _, _)
ScanRowNoEscape(line, i, out, cur, inQuote) ==
  IF i > Len(line) THEN Append(out, cur)
  ELSE IF line[i] = "\""
    THEN ScanRowNoEscape(line, i + 1, out, cur, ~inQuote)
  ELSE IF line[i] = "," /\ ~inQuote
    THEN ScanRowNoEscape(line, i + 1, Append(out, cur), <<>>, inQuote)
  ELSE ScanRowNoEscape(line, i + 1, out, Append(cur, line[i]), inQuote)

parseCsvRowNoEscape(line) == ScanRowNoEscape(line, 1, <<>>, <<>>, FALSE)

\* The loop of parseCsvRow from index i on (1-based), with out, cur, inQuote.
RECURSIVE ScanRow(_, _, _, _, _)
ScanRow(line, i, out, cur, inQuote) ==
  IF i > Len(line) THEN Append(out, cur)
  ELSE IF line[i] = "\""
    THEN IF inQuote /\ i + 1 <= Len(line) /\ line[i + 1] = "\""
           THEN ScanRow(line, i + 2, out, Append(cur, "\""), inQuote)
           ELSE ScanRow(line, i + 1, out, cur, ~inQuote)
  ELSE IF line[i] = "," /\ ~inQuote
    THEN ScanRow(line, i + 1, Append(out, cur), <<>>, inQuote)
  ELSE ScanRow(line, i + 1, out, Append(cur, line[i]), inQuote)

parseCsvRow(line) == ScanRow(line, 1, <<>>, <<>>, FALSE)

\* s.split("\n")
RECURSIVE SplitLines(_, _)
SplitLines(s, cur) ==
  IF s = <<>> THEN <<cur>>
  ELSE IF Head(s) = "\n" THEN <<cur>> \o SplitLines(Tail(s), <<>>)
  ELSE SplitLines(Tail(s), Append(cur, Head(s)))

\* Variant: obj[h.trim()] = values[i], a column the row does not supply is
\* left out of the record.
RecordOfNoDefault(headers, values) ==
  [k \in { Trim(headers[i]) : i \in 1..Min(Len(headers), Len(values)) } |->
     LET i == CHOOSE i \in 1..Min(Len(headers), Len(values)) :
                /\ Trim(headers[i]) = k
                /\ \A j \in 1..Min(Len(headers), Len(values)) : Trim(headers[j]) = k => j <= i
     IN  values[i]]

\* headers.forEach((h, i) => { obj[h.trim()] = values[i] ?? "" }): the last
\* header of a name wins.
RecordOf(headers, values) ==
  [k \in { Trim(headers[i]) : i \in 1..Len(headers) } |->
     LET i == CHOOSE i \in 1..Len(headers) :
                /\ Trim(headers[i]) = k
                /\ \A j \in 1..Len(headers) : Trim(headers[j]) = k => j <= i
     IN  IF i <= Len(values) THEN values[i] ELSE <<>>]

parseSimpleCsv(csv) ==
  LET lines == SplitLines(Trim(csv), <<>>)
  IN  IF Len(lines) < 2 THEN <<>>
      ELSE LET headers == parseCsvRow(lines[1])
           IN  [r \in 1..(Len(lines) - 1) |-> RecordOf(headers, parseCsvRow(lines[r + 1]))]

\* s.replace(/"/g, '""')
RECURSIVE DoubleQuotes(_)
DoubleQuotes(s) ==
  IF s = <<>> THEN <<>>
  ELSE IF Head(s) = "\"" THEN <<"\"", "\"">> \o DoubleQuotes(Tail(s))
  ELSE <<Head(s)>> \o DoubleQuotes(Tail(s))

\* csvEscape of the server, and the same quoting in toCsv
csvEscape(val) == <<"\"">> \o DoubleQuotes(val) \o <<"\"">>

\* parts.join(sep)
RECURSIVE Join(_, _)
Join(parts, sep) ==
  IF Len(parts) = 0 THEN <<>>
  ELSE IF Len(parts) = 1 THEN parts[1]
  ELSE parts[1] \o sep \o Join(Tail(parts), sep)

\* ==================================================== parseContactSegments
\* const MAX_ENUM_SEGMENTS = 8
MAX_ENUM_SEGMENTS == 8

\* .slice(0, 2000) of stripHtml
TextCap == 2000

\* `contact${n !== 1 ? "s" : ""}`
ContactWord(n) == <<"c", "o", "n", "t", "a", "c", "t">> \o (IF n # 1 THEN <<"s">> ELSE <<>>)

\* Variant: contacts.filter((c) => c.email), the test without trim().
WithEmailNoTrim(contacts) == SelectSeq(contacts, LAMBDA c : c.email # <<>>)

\* contacts.filter((c) => c.email?.trim())
WithEmail(contacts) == SelectSeq(contacts, LAMBDA c : Trim(c.email) # <<>>)

\* withEmail.map((c) => c.email.trim())
EmailsOf(rows) == [i \in 1..Len(rows) |-> Trim(rows[i].email)]

\* A Map<string, string[]> is the sequence of its entries in insertion order.
\* arr = groups.get(key) ?? []; arr.push(email); groups.set(key, arr)
GroupPush(groups, key, email) ==
  IF \E k \in 1..Len(groups) : groups[k].key = key
    THEN [k \in 1..Len(groups) |->
            IF groups[k].key = key
              THEN [key |-> key, emails |-> Append(groups[k].emails, email)]
              ELSE groups[k]]
    ELSE Append(groups, [key |-> key, emails |-> <<email>>])

\* The loop of addEnumSegments over the first n rows of withEmail.
RECURSIVE EnumGroups(_, _, _)
EnumGroups(rows, field, n) ==
  IF n = 0 THEN <<>>
  ELSE LET groups == EnumGroups(rows, field, n - 1)
           val    == Trim(rows[n][field])
       IN  IF val = <<>> THEN groups
           ELSE GroupPush(groups, val, Trim(rows[n].email))

\* Variant: `groups.size > MAX_ENUM_SEGMENTS` only, a single value makes a segment.
EnumSizeOkNoLower(size) == size <= MAX_ENUM_SEGMENTS

\* Variant: `groups.size >= MAX_ENUM_SEGMENTS`, eight values are already too many.
EnumSizeOkStrictUpper(size) == ~(size < 2 \/ size >= MAX_ENUM_SEGMENTS)

\* if (groups.size < 2 || groups.size > MAX_ENUM_SEGMENTS) return
EnumSizeOk(size) == ~(size < 2 \/ size > MAX_ENUM_SEGMENTS)

\* labelFn of the three addEnumSegments calls
EnumName(field, val) ==
  CASE field = "membership_level" -> val \o <<" ", "M", "e", "m", "b", "e", "r", "s">>
    [] field = "country"          -> val
    [] field = "city"             -> val \o <<" ", "(", "c", "i", "t", "y", ")">>

FieldChars(field) ==
  CASE field = "membership_level" -> <<"m", "e", "m", "b", "e", "r", "s", "h", "i", "p", "_", "l", "e", "v", "e", "l">>
    [] field = "country"          -> <<"c", "o", "u", "n", "t", "r", "y">>
    [] field = "city"             -> <<"c", "i", "t", "y">>

\* addEnumSegments(field, labelFn, idPrefix): the segments it pushes.
addEnumSegments(rows, field, idPrefix) ==
  LET groups == EnumGroups(rows, field, Len(rows))
  IN  IF ~EnumSizeOk(Len(groups)) THEN <<>>
      ELSE [k \in 1..Len(groups) |->
              [id          |-> idPrefix \o <<"_">> \o ReplaceSpaceRuns(ToLowerCase(groups[k].key)),
               name        |-> EnumName(field, groups[k].key),
               filterLabel |-> FieldChars(field) \o <<":", " ">> \o groups[k].key \o <<" ", "U+00B7", " ">>
                                 \o NumberToString(Len(groups[k].emails)) \o <<" ">>
                                 \o ContactWord(Len(groups[k].emails)),
               field       |-> field,
               emails      |-> groups[k].emails]]

\* AGE_BRACKETS, the last max being Infinity
AGE_BRACKETS ==
  << [label |-> <<"U", "n", "d", "e", "r", " ", "3", "0">>, min |-> 0,  max |-> 29,  open |-> FALSE],
     [label |-> <<"3", "0", "U+2013", "4", "5">>,    min |-> 30, max |-> 45,  open |-> FALSE],
     [label |-> <<"O", "v", "e", "r", " ", "4", "5">>,  min |-> 46, max |-> 0,   open |-> TRUE] >>

\* Variant: age > b.min, the lower end of every bracket is left out.
InBracketAboveMin(age, b) == age > b.min /\ (b.open \/ age <= b.max)

\* age >= b.min && age <= b.max
InBracket(age, b) == age >= b.min /\ (b.open \/ age <= b.max)

\* The bracket loop with its break: the first bracket that holds the age.
BracketOf(age) ==
  IF \E k \in 1..Len(AGE_BRACKETS) : InBracket(age, AGE_BRACKETS[k])
    THEN LET k == CHOOSE k \in 1..Len(AGE_BRACKETS) :
                    /\ InBracket(age, AGE_BRACKETS[k])
                    /\ \A m \in 1..(k - 1) : ~InBracket(age, AGE_BRACKETS[m])
         IN  AGE_BRACKETS[k].label
    ELSE <<>>

\* The age loop over the first n rows of withEmail.
RECURSIVE AgeGroups(_, _)
AgeGroups(rows, n) ==
  IF n = 0 THEN <<>>
  ELSE LET groups == AgeGroups(rows, n - 1)
           age    == ParseInt(Trim(rows[n].age))
       IN  IF age.isNaN \/ BracketOf(age.value) = <<>> THEN groups
           ELSE GroupPush(groups, BracketOf(age.value), Trim(rows[n].email))

ageSegments(rows) ==
  LET groups == AgeGroups(rows, Len(rows))
  IN  IF ~(Len(groups) >= 2) THEN <<>>
      ELSE [k \in 1..Len(groups) |->
              [id          |-> <<"h", "s", "_", "a", "g", "e", "_">> \o ReplaceNonAlnum(ToLowerCase(groups[k].key)),
               name        |-> <<"A", "g", "e", ":", " ">> \o groups[k].key,
               filterLabel |-> <<"a", "g", "e", " ">> \o groups[k].key \o <<" ", "U+00B7", " ">>
                                 \o NumberToString(Len(groups[k].emails)) \o <<" ">>
                                 \o ContactWord(Len(groups[k].emails)),
               field       |-> "age",
               emails      |-> groups[k].emails]]

\* new Date(dateStr).getTime() for the date strings used, in quarter days
\* since 2020-01-01 (a year of 365.25 days is 1461 of them); NaN otherwise.
DateTime(s) ==
  CASE s = <<"2020-01-01">> -> Num(0)
    [] s = <<"2023-07-01">> -> Num(5108)
    [] s = <<"2024-07-01">> -> Num(6572)
    [] OTHER -> NaN

QuarterDaysPerYear == 1461

SeniorityLabels == << <<"N", "e", "w", " ", "M", "e", "m", "b", "e", "r", "s", " ", "(", "<", "1", " ", "y", "r", ")">>, <<"G", "r", "o", "w", "i", "n", "g", " ", "(", "1", "U+2013", "2", " ", "y", "r", "s", ")">>, <<"L", "o", "y", "a", "l", " ", "(", "2", "+", " ", "y", "r", "s", ")">> >>

\* diffYears < 1 -> 1, diffYears < 2 -> 2, else 3
SeniorityBand(now, start) ==
  IF now - start < QuarterDaysPerYear THEN 1
  ELSE IF now - start < 2 * QuarterDaysPerYear THEN 2
  ELSE 3

\* The seniority loop: the emails pushed to band b, in row order.
RECURSIVE SeniorityEmails(_, _, _, _)
SeniorityEmails(rows, now, b, n) ==
  IF n = 0 THEN <<>>
  ELSE LET before  == SeniorityEmails(rows, now, b, n - 1)
           dateStr == Trim(rows[n].membership_startdate)
       IN  IF dateStr = <<>> \/ DateTime(dateStr).isNaN THEN before
           ELSE IF SeniorityBand(now, DateTime(dateStr).value) = b
             THEN Append(before, Trim(rows[n].email))
             ELSE before

senioritySegments(rows, now) ==
  LET all      == [b \in 1..3 |-> [key |-> SeniorityLabels[b],
                                   emails |-> SeniorityEmails(rows, now, b, Len(rows))]]
      nonEmpty == SelectSeq(all, LAMBDA g : Len(g.emails) > 0)
  IN  IF ~(Len(nonEmpty) >= 2) THEN <<>>
      ELSE [k \in 1..Len(nonEmpty) |->
              [id          |-> <<"h", "s", "_", "s", "e", "n", "i", "o", "r", "i", "t", "y", "_">> \o ReplaceNonAlnum(ToLowerCase(nonEmpty[k].key)),
               name        |-> nonEmpty[k].key,
               filterLabel |-> <<"m", "e", "m", "b", "e", "r", "s", "h", "i", "p", " ", "s", "e", "n", "i", "o", "r", "i", "t", "y", " ", "U+00B7", " ">>
                                 \o NumberToString(Len(nonEmpty[k].emails)) \o <<" ">>
                                 \o ContactWord(Len(nonEmpty[k].emails)),
               field       |-> "membership_startdate",
               emails      |-> nonEmpty[k].emails]]

\* parseContactSegments, from the parsed contacts on (contacts is what
\* parseSimpleCsv(data.contactsCsv) returned, now is new Date()).  The field
\* component of a segment is not in the code's object: it records which
\* strategy pushed the segment.
parseContactSegments(contacts, now) ==
  LET withEmail == WithEmail(contacts)
  IN  IF Len(contacts) = 0 \/ Len(withEmail) = 0 THEN <<>>
      ELSE << [id          |-> <<"h", "s", "_", "a", "l", "l">>,
               name        |-> <<"A", "l", "l", " ", "H", "u", "b", "S", "p", "o", "t", " ", "C", "o", "n", "t", "a", "c", "t", "s">>,
               filterLabel |-> NumberToString(Len(withEmail)) \o <<" ">>
                                 \o ContactWord(Len(withEmail)),
               field       |-> "all",
               emails      |-> EmailsOf(withEmail)] >>
           \o addEnumSegments(withEmail, "membership_level", <<"h", "s", "_", "l", "e", "v", "e", "l">>)
           \o addEnumSegments(withEmail, "country", <<"h", "s", "_", "c", "o", "u", "n", "t", "r", "y">>)
           \o addEnumSegments(withEmail, "city", <<"h", "s", "_", "c", "i", "t", "y">>)
           \o ageSegments(withEmail)
           \o senioritySegments(withEmail, now)

\* =========================================================== scoreSegment
\* \w of a regular expression
WordChar == LowerAlnum \cup DOMAIN UpperToLower \cup {"_"}

RECURSIVE SkipNonWord(_)
SkipNonWord(s) ==
  IF s = <<>> THEN s
  ELSE IF Head(s) \in WordChar THEN s ELSE SkipNonWord(Tail(s))

\* s.split(/\W+/): a run of non-word characters ends the current piece.
RECURSIVE SplitNonWord(_, _)
SplitNonWord(s, cur) ==
  IF s = <<>> THEN <<cur>>
  ELSE IF Head(s) \in WordChar THEN SplitNonWord(Tail(s), Append(cur, Head(s)))
  ELSE <<cur>> \o SplitNonWord(SkipNonWord(s), <<>>)

\* target.includes(w)
Includes(target, w) ==
  \E i \in 0..(Len(target) - Len(w)) : SubSeq(target, i + 1, i + Len(w)) = w

\* Variant: words of 3 characters are kept too.
scoreSegmentMin3(segment, targetGroup) ==
  LET target == ToLowerCase(targetGroup)
      segText == ToLowerCase(segment.name \o <<" ">> \o segment.filterLabel)
      Kept(w) == Len(w) >= 3
      Found(w) == Includes(target, w)
      words == SelectSeq(SplitNonWord(segText, <<>>), Kept)
  IN  Len(SelectSeq(words, Found))

\* Variant: the target description is compared as written.
scoreSegmentNoLower(segment, targetGroup) ==
  LET target == targetGroup
      segText == ToLowerCase(segment.name \o <<" ">> \o segment.filterLabel)
      Kept(w) == Len(w) > 3
      Found(w) == Includes(target, w)
      words == SelectSeq(SplitNonWord(segText, <<>>), Kept)
  IN  Len(SelectSeq(words, Found))

scoreSegment(segment, targetGroup) ==
  LET target == ToLowerCase(targetGroup)
      segText == ToLowerCase(segment.name \o <<" ">> \o segment.filterLabel)
      Kept(w) == Len(w) > 3
      Found(w) == Includes(target, w)
      words == SelectSeq(SplitNonWord(segText, <<>>), Kept)
  IN  Len(SelectSeq(words, Found))

\* ============================================================== stripHtml
\* The smallest element of a non-empty set of indices.
First(S) == CHOOSE i \in S : \A j \in S : i <= j

\* s.replace(/pat/g, rep) for a literal pattern: leftmost occurrence first.
RECURSIVE ReplaceAll(_, _, _)
ReplaceAll(s, pat, with) ==
  LET starts == { i \in 1..(Len(s) - Len(pat) + 1) :
                    s[i] = pat[1] /\ SubSeq(s, i, i + Len(pat) - 1) = pat }
  IN  IF starts = {} THEN s
      ELSE LET i == First(starts)
           IN  SubSeq(s, 1, i - 1) \o with
                 \o ReplaceAll(SubSeq(s, i + Len(pat), Len(s)), pat, with)

\* s.replace(/<style[^>]*>[\s\S]*?<\/style>/gi, "")
RECURSIVE RemoveStyle(_)
RemoveStyle(s) ==
  LET IsAt(i, word) == /\ i + Len(word) - 1 <= Len(s)
                       /\ ToLowerCase(SubSeq(s, i, i + Len(word) - 1)) = word
      Closers(i)    == { j \in (i + 6)..Len(s) : s[j] = ">" }
      Ends(i)       == { e \in (First(Closers(i)) + 1)..Len(s) : IsAt(e, <<"<", "/", "s", "t", "y", "l", "e", ">">>) }
      starts        == { i \in 1..Len(s) :
                           /\ s[i] = "<"
                           /\ IsAt(i, <<"<", "s", "t", "y", "l", "e">>)
                           /\ Closers(i) # {}
                           /\ Ends(i) # {} }
  IN  IF starts = {} THEN s
      ELSE LET i == First(starts)
               e == First(Ends(i))
           IN  SubSeq(s, 1, i - 1) \o RemoveStyle(SubSeq(s, e + 8, Len(s)))

\* s.replace(/<[^>]+>/g, " ")
RECURSIVE ReplaceTags(_)
ReplaceTags(s) ==
  LET starts == { i \in 1..(Len(s) - 2) :
                    /\ s[i] = "<"
                    /\ s[i + 1] # ">"
                    /\ \E j \in (i + 2)..Len(s) : s[j] = ">" }
  IN  IF starts = {} THEN s
      ELSE LET i == First(starts)
               j == First({ k \in (i + 2)..Len(s) : s[k] = ">" })
           IN  SubSeq(s, 1, i - 1) \o <<" ">> \o ReplaceTags(SubSeq(s, j + 1, Len(s)))

\* s.replace(/\s{2,}/g, " ")
RECURSIVE CollapseSpace(_)
CollapseSpace(s) ==
  LET starts == { i \in 1..(Len(s) - 1) : s[i] \in WhiteSpace /\ s[i + 1] \in WhiteSpace }
  IN  IF starts = {} THEN s
      ELSE LET i    == First(starts)
               rest == TrimStart(SubSeq(s, i, Len(s)))
           IN  SubSeq(s, 1, i - 1) \o <<" ">> \o CollapseSpace(rest)

\* s.slice(0, n)
Slice(s, n) == SubSeq(s, 1, Min(n, Len(s)))

\* Variant: stripHtml without the trim().
stripHtmlNoTrim(html) ==
  LET a == RemoveStyle(html)
      b == ReplaceTags(a)
      c == ReplaceAll(b, <<"&", "n", "b", "s", "p", ";">>, <<" ">>)
      d == ReplaceAll(c, <<"&", "a", "m", "p", ";">>, <<"&">>)
      e == ReplaceAll(d, <<"&", "l", "t", ";">>, <<"<">>)
      f == ReplaceAll(e, <<"&", "g", "t", ";">>, <<">">>)
      g == CollapseSpace(f)
  IN  Slice(g, TextCap)

stripHtml(html) ==
  LET a == RemoveStyle(html)
      b == ReplaceTags(a)
      c == ReplaceAll(b, <<"&", "n", "b", "s", "p", ";">>, <<" ">>)
      d == ReplaceAll(c, <<"&", "a", "m", "p", ";">>, <<"&">>)
      e == ReplaceAll(d, <<"&", "l", "t", ";">>, <<"<">>)
      f == ReplaceAll(e, <<"&", "g", "t", ";">>, <<">">>)
      g == CollapseSpace(f)
  IN  Slice(Trim(g), TextCap)

\* ------------------------------------------------------------ application
\* A missing key of a Record<string, ..> is a key outside DOMAIN; {} is <<>>.
\* No handleSend is in flight.  A handleSend in flight is known by the page
\* it belongs to, the campaign id its closure holds, whether its component is
\* still mounted, and (kept for the record) whether every email of that
\* campaign was approved when it started.
NoHandler == [page |-> "none", campaignId |-> Null, mounted |-> FALSE, approvedAtSend |-> FALSE]

\* The page state before any navigation: the campaigns list is shown, no
\* dialog is open, nothing is being sent, no toast has been shown.
InitialUi ==
  [route            |-> "/campaigns",
   campaignId       |-> Null,
   showConfigDialog |-> FALSE,
   isSending        |-> FALSE,
   sent             |-> FALSE,
   sendEntry        |-> "none",
   handler          |-> NoHandler,
   toast            |-> [title |-> "none", description |-> ""]]

\* A sendCampaign call that has not been made.
IdleCall ==
  [pc |-> "idle", tasks |-> <<>>, queue |-> <<>>, jobs |-> <<>>, workers |-> EmptyBag,
   results |-> <<>>, sent |-> 0, failed |-> <<>>, requests |-> <<>>, outcome |-> <<>>,
   result |-> [sent |-> 0, failed |-> <<>>]]

\* --------------------------------------------------- campaigns-list store
\* { ...a, ...b } of two objects
Spread(a, b) ==
  [k \in DOMAIN a \cup DOMAIN b |-> IF k \in DOMAIN b THEN b[k] ELSE a[k]]

\* c.approvals[emailId] ?? { legal: false, marketing: false, notes: "" }
ExistingApproval(c, emailId) ==
  IF emailId \in DOMAIN c.approvals THEN c.approvals[emailId]
  ELSE [legal |-> FALSE, marketing |-> FALSE, notes |-> ""]

\* c.emails.every((e) => approvals[e.id]?.legal && approvals[e.id]?.marketing)
AllApproved(emails, approvals) ==
  \A i \in 1..Len(emails) :
    /\ emails[i].id \in DOMAIN approvals
    /\ approvals[emails[i].id].legal
    /\ approvals[emails[i].id].marketing

\* addCampaign
addCampaign(campaigns, campaign) == <<campaign>> \o campaigns

\* updateCampaign
updateCampaign(campaigns, id, updates) ==
  [i \in 1..Len(campaigns) |->
     IF campaigns[i].id = id THEN Spread(campaigns[i], updates) ELSE campaigns[i]]

\* Variant: the status is recomputed for a sent campaign too.
updateApprovalResetsSent(campaigns, campaignId, emailId, approval) ==
  [i \in 1..Len(campaigns) |->
     LET c == campaigns[i]
     IN  IF c.id # campaignId THEN c
         ELSE LET updated   == Spread(ExistingApproval(c, emailId), approval)
                  approvals == Spread(c.approvals, (emailId :> updated))
              IN  Spread(c, [approvals |-> approvals,
                             status    |-> IF AllApproved(c.emails, approvals)
                                             THEN "approved" ELSE "in_review"])]

\* updateApproval
updateApproval(campaigns, campaignId, emailId, approval) ==
  [i \in 1..Len(campaigns) |->
     LET c == campaigns[i]
     IN  IF c.id # campaignId THEN c
         ELSE LET updated   == Spread(ExistingApproval(c, emailId), approval)
                  approvals == Spread(c.approvals, (emailId :> updated))
              IN  Spread(c, [approvals |-> approvals,
                             status    |-> IF c.status = "sent" THEN "sent"
                                           ELSE IF AllApproved(c.emails, approvals)
                                             THEN "approved" ELSE "in_review"])]

\* setEmailAssignment
setEmailAssignment(campaigns, campaignId, emailId, recipients) ==
  [i \in 1..Len(campaigns) |->
     LET c == campaigns[i]
     IN  IF c.id # campaignId THEN c
         ELSE Spread(c, [emailAssignments |-> Spread(c.emailAssignments, (emailId :> recipients))])]

\* What find returns when there is no such campaign (undefined), as a record
\* with no id.
NoCampaign ==
  [id |-> Null, status |-> Null, emails |-> <<>>, approvals |-> <<>>, emailAssignments |-> <<>>]

\* campaigns.find((c) => c.id === id)
FindCampaign(campaigns, id) ==
  IF \E i \in 1..Len(campaigns) : campaigns[i].id = id
    THEN campaigns[CHOOSE i \in 1..Len(campaigns) :
                     /\ campaigns[i].id = id
                     /\ \A j \in 1..(i - 1) : campaigns[j].id # id]
    ELSE NoCampaign

\* ------------------------------------------------------------------ state
Init ==
  /\ pc = "idle"
  /\ tasks = <<>>
  /\ queue = <<>>
  /\ jobs = <<>>
  /\ workers = EmptyBag
  /\ results = <<>>
  /\ sent = 0
  /\ failed = <<>>
  /\ requests = <<>>
  /\ outcome = <<>>
  /\ result = [sent |-> 0, failed |-> <<>>]
  /\ op = "none"
  /\ arg = <<>>
  /\ ret = <<>>
  /\ store = <<>>
  /\ flow = [generatedEmails |-> <<>>, emailAssignments |-> <<>>]
  /\ ui = InitialUi
  /\ other = IdleCall

\* sendCampaign(ts) up to `await Promise.all(workers)`, as it changes the
\* variables of the call.
StartCall(ts) ==
  /\ pc = "idle"
  /\ LET k  == Len(ts)
         st == StartWorkers([queue    |-> [i \in 1..k |-> i],
                             jobs     |-> [i \in 1..k |-> "created"],
                             requests |-> <<>>,
                             sent     |-> 0,
                             failed   |-> <<>>,
                             outcome  |-> [i \in 1..k |-> "none"]],
                            ts, WorkerCount(ConcurrencyLimit, k))
     IN  /\ tasks' = ts
         /\ queue' = st.queue
         /\ jobs' = st.jobs
         /\ requests' = st.requests
         /\ workers' = st.workers
         /\ sent' = st.sent
         /\ failed' = st.failed
         /\ outcome' = st.outcome
  /\ results' = <<>>
  /\ pc' = "running"
  /\ UNCHANGED result

\* sendCampaign(ts) called on its own.
Call(ts) ==
  /\ StartCall(ts)
  /\ UNCHANGED <<calc, app, other>>

\* The send of job j settles with response res and the job runs to its end.
Resolve(j, res) ==
  /\ j \in DOMAIN jobs
  /\ jobs[j] = "awaiting"
  /\ LET out == sendEmailOne(res)
         r   == JobAfterSend([sent |-> sent, failed |-> failed], tasks[j], out)
     IN  /\ sent' = r.sent
         /\ failed' = r.failed
         /\ jobs' = [jobs EXCEPT ![j] = r.settled]
         /\ outcome' = [outcome EXCEPT ![j] = IF out.threw THEN "error" ELSE "ok"]
  /\ UNCHANGED <<pc, tasks, queue, workers, results, requests, result, calc, app, other>>

\* Worker w resumes after `await task()`: results.push(..); await runNext().
Continue(w) ==
  /\ w \in BagToSet(workers)
  /\ w.state = "awaiting"
  /\ jobs[w.job] \in {"fulfilled", "rejected"}
  /\ IF jobs[w.job] = "rejected"
       THEN /\ workers' = (workers (-) SetToBag({w})) (+) SetToBag({[state |-> "rejected", job |-> 0]})
            /\ UNCHANGED <<queue, jobs, requests, results, sent, failed, outcome>>
       ELSE LET r == runNext([queue |-> queue, jobs |-> jobs, requests |-> requests,
                              sent |-> sent, failed |-> failed, outcome |-> outcome], tasks)
            IN  /\ results' = Append(results, "undefined")
                /\ queue' = r.queue
                /\ jobs' = r.jobs
                /\ requests' = r.requests
                /\ sent' = r.sent
                /\ failed' = r.failed
                /\ outcome' = r.outcome
                /\ workers' = (workers (-) SetToBag({w})) (+) SetToBag({r.worker})
  /\ UNCHANGED <<pc, tasks, result, calc, app, other>>

\* sendCampaign resumes after `await withConcurrency(jobs, 5)`:
\* return { sent, failed }, or reject with what Promise.all rejected with.
Return ==
  /\ pc = "running"
  /\ PromiseAll(workers) # "pending"
  /\ IF PromiseAll(workers) = "rejected"
       THEN pc' = "rejected" /\ UNCHANGED result
       ELSE pc' = "returned" /\ result' = [sent |-> sent, failed |-> failed]
  /\ UNCHANGED <<tasks, queue, jobs, workers, results, sent, failed, requests, outcome, calc, app, other>>

Next ==
  \/ \E ts \in TaskLists : Call(ts)
  \/ \E j \in DOMAIN jobs, res \in Responses : Resolve(j, res)
  \/ \E w \in BagToSet(workers) : Continue(w)
  \/ Return

Spec == Init /\ [][Next]_vars

\* The event loop runs every continuation that is ready, and (the premise of
\* the termination claim) every external send call eventually settles.
\* Termination does not depend on what the tasks carry, so the fair
\* specification tries one task list of every length.
LiveTaskLists == { ts \in TaskLists : \A i \in DOMAIN ts : ts[i] = TaskA }

LiveNext ==
  \/ \E ts \in LiveTaskLists : Call(ts)
  \/ \E j \in DOMAIN jobs, res \in Responses : Resolve(j, res)
  \/ \E w \in BagToSet(workers) : Continue(w)
  \/ Return

LiveSpec ==
  /\ Init /\ [][LiveNext]_vars
  /\ \A j \in 1..MaxTasks : WF_vars(\E res \in Responses : Resolve(j, res))
  /\ WF_vars(\E w \in BagToSet(workers) : Continue(w))
  /\ WF_vars(Return)

\* ------------------------------------------------------ two calls at once
\* Variant: sent and failed are module-level variables, every call's jobs
\* update the same pair.
AccumulatorsModuleLevel(own, first) == first

\* `let sent = 0; const failed = []` are declared inside sendCampaign: the
\* jobs of a call close over that call's own pair.
Accumulators(own, first) == own

\* The variables of the second call that runNext and the jobs can touch.
OtherState ==
  LET acc == Accumulators([sent |-> other.sent, failed |-> other.failed],
                          [sent |-> sent, failed |-> failed])
  IN  [queue |-> other.queue, jobs |-> other.jobs, requests |-> other.requests,
       sent |-> acc.sent, failed |-> acc.failed, outcome |-> other.outcome]

\* The second sendCampaign(ts) up to `await Promise.all(workers)`.
OtherCall(ts) ==
  /\ other.pc = "idle"
  /\ LET k  == Len(ts)
         st == StartWorkers([queue    |-> [i \in 1..k |-> i],
                             jobs     |-> [i \in 1..k |-> "created"],
                             requests |-> <<>>,
                             sent     |-> 0,
                             failed   |-> <<>>,
                             outcome  |-> [i \in 1..k |-> "none"]],
                            ts, WorkerCount(ConcurrencyLimit, k))
     IN  other' = [pc |-> "running", tasks |-> ts, queue |-> st.queue, jobs |-> st.jobs,
                   workers |-> st.workers, results |-> <<>>, sent |-> st.sent,
                   failed |-> st.failed, requests |-> st.requests, outcome |-> st.outcome,
                   result |-> other.result]
  /\ UNCHANGED <<dispatch, calc, app>>

\* The send of job j of the second call settles and the job runs to its end.
OtherResolve(j, res) ==
  /\ j \in DOMAIN other.jobs
  /\ other.jobs[j] = "awaiting"
  /\ LET out == sendEmailOne(res)
         st  == OtherState
         r   == JobAfterSend([sent |-> st.sent, failed |-> st.failed], other.tasks[j], out)
     IN  other' = [other EXCEPT !.sent = r.sent,
                                !.failed = r.failed,
                                !.jobs[j] = r.settled,
                                !.outcome[j] = IF out.threw THEN "error" ELSE "ok"]
  /\ UNCHANGED <<dispatch, calc, app>>

\* A worker of the second call resumes after `await task()`.
OtherContinue(w) ==
  /\ w \in BagToSet(other.workers)
  /\ w.state = "awaiting"
  /\ other.jobs[w.job] \in {"fulfilled", "rejected"}
  /\ IF other.jobs[w.job] = "rejected"
       THEN other' = [other EXCEPT !.workers = (other.workers (-) SetToBag({w}))
                                                 (+) SetToBag({[state |-> "rejected", job |-> 0]})]
       ELSE LET r == runNext(OtherState, other.tasks)
            IN  other' = [other EXCEPT !.results = Append(other.results, "undefined"),
                                       !.queue = r.queue,
                                       !.jobs = r.jobs,
                                       !.requests = r.requests,
                                       !.sent = r.sent,
                                       !.failed = r.failed,
                                       !.outcome = r.outcome,
                                       !.workers = (other.workers (-) SetToBag({w}))
                                                     (+) SetToBag({r.worker})]
  /\ UNCHANGED <<dispatch, calc, app>>

\* The second call resumes after `await withConcurrency(jobs, 5)`.
OtherReturn ==
  /\ other.pc = "running"
  /\ PromiseAll(other.workers) # "pending"
  /\ IF PromiseAll(other.workers) = "rejected"
       THEN other' = [other EXCEPT !.pc = "rejected"]
       ELSE other' = [other EXCEPT !.pc = "returned",
                                   !.result = [sent |-> OtherState.sent, failed |-> OtherState.failed]]
  /\ UNCHANGED <<dispatch, calc, app>>

\* Two callers: one sends to a<<"e", "x", "a", "m", "p", "l", "e", ".", "c", "o", "m", ",", " ", "t", "h", "e", " ", "o", "t", "h", "e", "r", " ", "t", "o", " ", "b">>example.com.
FirstTaskLists == { [i \in 1..k |-> TaskA] : k \in 0..MaxReentrantTasks }

OtherTaskLists == { [i \in 1..k |-> TaskB] : k \in 0..MaxReentrantTasks }

ReentrantNext ==
  \/ \E ts \in FirstTaskLists : Call(ts)
  \/ \E j \in DOMAIN jobs, res \in Responses : Resolve(j, res)
  \/ \E w \in BagToSet(workers) : Continue(w)
  \/ Return
  \/ \E ts \in OtherTaskLists : OtherCall(ts)
  \/ \E j \in DOMAIN other.jobs, res \in Responses : OtherResolve(j, res)
  \/ \E w \in BagToSet(other.workers) : OtherContinue(w)
  \/ OtherReturn

ReentrantSpec == Init /\ [][ReentrantNext]_vars

\* ------------------------------------------------------- malformed tasks
\* A task object passed without its email payload (a caller bypassing the
\* CampaignSendTask type), mixed with well-formed tasks.
TaskNoEmail == [recipient |-> "b@example.com", subject |-> "Hi B"]

MalformedTaskLists ==
  { ts \in UNION { [1..k -> {TaskA, TaskNoEmail}] : k \in 1..MaxMalformedTasks } :
      \E i \in DOMAIN ts : ts[i] = TaskNoEmail }

MalformedNext ==
  \/ \E ts \in MalformedTaskLists : Call(ts)
  \/ \E j \in DOMAIN jobs, res \in Responses : Resolve(j, res)
  \/ \E w \in BagToSet(workers) : Continue(w)
  \/ Return

MalformedSpec == Init /\ [][MalformedNext]_vars

\* ------------------------------------------------------------ a hung send
\* No timeout is set on the send: the fetch of one job may stay pending for
\* ever.  Hang(j) is the environment's choice of that job; outcome "never"
\* marks it, and its Resolve never happens.
Hang(j) ==
  /\ j \in DOMAIN jobs
  /\ jobs[j] = "awaiting"
  /\ \A i \in DOMAIN outcome : outcome[i] # "never"
  /\ outcome' = [outcome EXCEPT ![j] = "never"]
  /\ UNCHANGED <<pc, tasks, queue, jobs, workers, results, sent, failed, requests, result, calc, app, other>>

ResolveUnlessHung(j, res) == j \in DOMAIN outcome /\ outcome[j] # "never" /\ Resolve(j, res)

HangNext ==
  \/ \E ts \in LiveTaskLists : Call(ts)
  \/ \E j \in DOMAIN jobs : Hang(j)
  \/ \E j \in DOMAIN jobs, res \in Responses : ResolveUnlessHung(j, res)
  \/ \E w \in BagToSet(workers) : Continue(w)
  \/ Return

\* Every send but the hung one eventually settles; ready continuations run.
HangSpec ==
  /\ Init /\ [][HangNext]_vars
  /\ \A j \in 1..MaxTasks : WF_vars(\E res \in Responses : ResolveUnlessHung(j, res))
  /\ WF_vars(\E w \in BagToSet(workers) : Continue(w))
  /\ WF_vars(Return)

\* ------------------------------------------- one failed send, all shapes
\* The non-2xx (and one 2xx) responses the send endpoint or a proxy in front
\* of it can answer with.
ErrorBodies ==
  { [json |-> "invalid", body |-> <<>>],
    [json |-> "null",    body |-> <<>>],
    [json |-> "object",  body |-> [detail |-> "Provider error"]],
    [json |-> "object",  body |-> [detail |-> "SendGrid is down"]],
    [json |-> "object",  body |-> [detail |-> ""]],
    [json |-> "object",  body |-> [detail |-> Null]],
    [json |-> "object",  body |-> [message |-> "quota exceeded"]] }

AllResponses ==
  Responses \cup
  { [ok |-> FALSE, status |-> st, statusText |-> tx, json |-> b.json, body |-> b.body] :
      st \in {400, 422, 500, 502, 503},
      tx \in {"", "Bad Gateway", "Service Unavailable"},
      b \in ErrorBodies }

\* One job with task TaskA whose fetch resolved with res: sendEmailOne, then
\* the job's try/catch on fresh accumulators.
SendOne(res) ==
  /\ op' = "sendEmailOne"
  /\ arg' = res
  /\ ret' = LET out == sendEmailOne(res)
            IN  [out |-> out,
                 job |-> JobAfterSend([sent |-> 0, failed |-> <<>>], TaskA, out)]
  /\ UNCHANGED <<dispatch, app, other>>

SendOneNext == \E res \in AllResponses : SendOne(res)

SendOneSpec == Init /\ [][SendOneNext]_vars

\* --------------------------------------------- parseContactSegments calls
\* Contact rows as parseSimpleCsv returns them for the export's columns.
Row(email, level, country, city, age, start) ==
  [email |-> email, membership_level |-> level, country |-> country, city |-> city,
   age |-> age, membership_startdate |-> start]

Email(i) == <<"u" \o ToString(i) \o "@example.com">>

\* Rows with the irregularities the builder has to cope with: the same
\* address twice, padded values, no address, a blank address, bad age and date.
RowPool ==
  { Row(Email(1),               <<"G", "o", "l", "d">>,           <<"S", "E">>, <<>>,      <<"2", "5">>,      <<"2020-01-01">>),
    Row(<<" ">> \o Email(2) \o <<" ">>, <<"S", "i", "l", "v", "e", "r">>, <<"S", "E">>, <<"X">>,   <<"3", "5">>,      <<"2024-07-01">>),
    Row(Email(1),               <<" ", "G", "o", "l", "d", "\t">>, <<"N", "O">>, <<"Y">>,   <<"a", "b", "c">>, <<"garbage">>),
    Row(<<>>,                   <<"B", "r", "o", "n", "z", "e">>, <<"D", "K">>, <<"Z">>,   <<"6", "0">>,      <<"2023-07-01">>),
    Row(<<" ", "\t">>,          <<"I", "r", "o", "n">>,           <<"F", "I">>, <<"W">>,   <<"4", "6">>,      <<"2020-01-01">>),
    Row(Email(3),               <<>>,                             <<" ">>,      <<"X">>,   <<>>,              <<" ", "2023-07-01">>) }

\* new Date() at the time of the call, in quarter days since 2020-01-01
\* (2024-10-01 and 2025-10-01).
Nows == {6940, 8401}

AgePool ==
  { <<"1", "0">>, <<"2", "9">>, <<"3", "0">>, <<"3", "5">>, <<"4", "5">>, <<"4", "6">>, <<"6", "0">>,
    <<"0">>, <<"-", "5">>, <<"a", "b", "c">> }

Letters ==
  <<"A", "B", "C", "D", "E", "F", "G", "H", "I", "J", "K", "L", "M",
    "N", "O", "P", "Q", "R", "S", "T", "U", "V", "W", "X", "Y", "Z">>

\* The value of a field in row i of a table whose field has d distinct
\* values (none for d = 0); row 1 carries its value padded with white space.
EnumValue(i, d, pad) ==
  IF d = 0 THEN <<>>
  ELSE IF i = 1 /\ pad THEN <<" ", Letters[1], "\t">>
  ELSE <<Letters[((i - 1) % d) + 1]>>

\* A table of n rows: dLevel and dCountry distinct values in membership_level
\* and country, city the other way round; row `blank` (if any) has no email.
\* The last row is the only one with its value when the field has n values.
EnumTable(n, dLevel, dCountry, blank, pad) ==
  [i \in 1..n |->
     Row(IF i = blank THEN <<" ">> ELSE Email(i),
         EnumValue(i, dLevel, pad),
         EnumValue(i, dCountry, FALSE),
         EnumValue(i, n - dCountry, pad),
         <<>>, <<>>)]

\* One call per behaviour: the function keeps no state between calls.
Parse(contacts, now) ==
  /\ op = "none"
  /\ op' = "parseContactSegments"
  /\ arg' = [contacts |-> contacts, now |-> now]
  /\ ret' = parseContactSegments(contacts, now)
  /\ UNCHANGED <<dispatch, app, other>>

ParseRows ==
  \E k \in 0..MaxRows : \E contacts \in [1..k -> RowPool] : \E now \in Nows :
    Parse(contacts, now)

ParseAges ==
  \E k \in 0..MaxAgeRows : \E ages \in [1..k -> AgePool] :
    Parse([i \in 1..k |-> Row(Email(i), <<>>, <<>>, <<>>, ages[i], <<>>)], 6940)

ParseEnum ==
  \E n \in 0..MaxEnumRows : \E dLevel \in 0..n, dCountry \in 0..n, blank \in {0, n}, pad \in BOOLEAN :
    Parse(EnumTable(n, dLevel, dCountry, blank, pad), 6940)

\* Two runs on the same contacts; each reads the clock when it runs.
ParseTwice(contacts, now1, now2) ==
  /\ op = "none"
  /\ op' = "parseContactSegmentsTwice"
  /\ arg' = [contacts |-> contacts, now1 |-> now1, now2 |-> now2]
  /\ ret' = [first  |-> parseContactSegments(contacts, now1),
             second |-> parseContactSegments(contacts, now2)]
  /\ UNCHANGED <<dispatch, app, other>>

ParseRowsTwice ==
  \E k \in 0..MaxRows : \E contacts \in [1..k -> RowPool] :
    \E now1 \in Nows : \E now2 \in { t \in Nows : t >= now1 } :
      ParseTwice(contacts, now1, now2)

\* membership_level values that differ in letter case or in inner white
\* space only, and two that differ otherwise.
SpellingPool == { <<"G", "o", "l", "d">>, <<"g", "o", "l", "d">>, <<"N", "e", "w", " ", "Y", "o", "r", "k">>, <<"N", "e", "w", " ", " ", "Y", "o", "r", "k">>, <<"S", "i", "l", "v", "e", "r">> }

ParseSpellings ==
  \E k \in 0..MaxRows : \E levels \in [1..k -> SpellingPool] :
    Parse([i \in 1..k |-> Row(Email(i), levels[i], <<>>, <<>>, <<>>, <<>>)], 6940)

SegmentsNext == ParseRows \/ ParseAges \/ ParseEnum \/ ParseRowsTwice \/ ParseSpellings

SegmentsSpec == Init /\ [][SegmentsNext]_vars

\* ------------------------------------------------------ CSV parser calls
\* Header lines with the column names they carry.
HeaderPool ==
  { [text |-> <<"a", ",", "b">>,   names |-> << <<"a">>, <<"b">> >>],
    [text |-> <<" ", "a", " ", ",", "b">>, names |-> << <<"a">>, <<"b">> >>],
    [text |-> <<"a", ",", "b", ",", "c">>, names |-> << <<"a">>, <<"b">>, <<"c">> >>] }

RowAlphabet == {"x", ",", "\"", " "}

RowTexts == UNION { [1..n -> RowAlphabet] : n \in 0..MaxRowLen }

\* parseSimpleCsv on the header line followed by the data rows.
ParseCsv(header, rows) ==
  /\ op = "none"
  /\ op' = "parseSimpleCsv"
  /\ arg' = [header |-> header, rows |-> rows]
  /\ ret' = parseSimpleCsv(Join(<<header.text>> \o rows, <<"\n">>))
  /\ UNCHANGED <<dispatch, app, other>>

ValueAlphabet == {"a", ",", "\""}

Values == UNION { [1..n -> ValueAlphabet] : n \in 0..MaxValueLen }

\* A row serialized as the exporter does, then parsed.
RoundTrip(values) ==
  /\ op = "none"
  /\ op' = "csvRoundTrip"
  /\ arg' = values
  /\ ret' = parseCsvRow(Join([i \in 1..Len(values) |-> csvEscape(values[i])], <<",">>))
  /\ UNCHANGED <<dispatch, app, other>>

CsvNext ==
  \/ \E header \in HeaderPool : \E n \in 0..MaxCsvRows : \E rows \in [1..n -> RowTexts] :
       ParseCsv(header, rows)
  \/ \E n \in 1..MaxFields : \E values \in [1..n -> Values] : RoundTrip(values)

CsvSpec == Init /\ [][CsvNext]_vars

\* ----------------------------------------------------- scoreSegment calls
\* Words of segment names and filter labels.
WordPool == { <<"g", "o", "l", "d">>, <<"G", "o", "l", "d">>, <<"V", "I", "P">>, <<"m", "e", "m", "b", "e", "r", "s">>, <<"a", "g", "e">> }

\* Target-group descriptions of generated emails.
TargetPool ==
  { <<"G", "o", "l", "d", " ", "m", "e", "m", "b", "e", "r", "s", " ", "i", "n", " ", "S", "t", "o", "c", "k", "h", "o", "l", "m">>, <<"V", "I", "P", " ", "c", "u", "s", "t", "o", "m", "e", "r", "s">>, <<"G", "O", "L", "D", "E", "N", " ", "a", "g", "e">>, <<>> }

\* What stands between two words of a name or label.
Separators == { <<" ">>, <<",", " ">> }

\* The words of a name or label, as text.
Text(words, sep) == Join(words, sep)

\* A segment whose name holds the first k of the words and whose filter label
\* holds the rest.
SegmentOf(words, k, sep) ==
  [name        |-> Text(SubSeq(words, 1, k), sep),
   filterLabel |-> Text(SubSeq(words, k + 1, Len(words)), sep)]

\* Upper case of a text.
ToUpperCase(s) ==
  [i \in 1..Len(s) |->
     IF \E c \in DOMAIN UpperToLower : UpperToLower[c] = s[i]
       THEN CHOOSE c \in DOMAIN UpperToLower : UpperToLower[c] = s[i]
       ELSE s[i]]

\* Every letter in the other case.
SwapCase(s) ==
  [i \in 1..Len(s) |->
     IF s[i] \in DOMAIN UpperToLower THEN UpperToLower[s[i]] ELSE ToUpperCase(<<s[i]>>)[1]]

Recase(how, s) ==
  CASE how = "same" -> s
    [] how = "upper" -> ToUpperCase(s)
    [] how = "lower" -> ToLowerCase(s)
    [] how = "swap" -> SwapCase(s)

\* The words in another order.
Reorder(how, words) ==
  CASE how = "same" -> words
    [] how = "reverse" -> [i \in 1..Len(words) |-> words[Len(words) + 1 - i]]
    [] how = "rotate" -> IF words = <<>> THEN words ELSE Append(Tail(words), Head(words))

Score(words, k, sep, target) ==
  /\ op = "none"
  /\ op' = "scoreSegment"
  /\ arg' = [words |-> words, k |-> k, sep |-> sep, target |-> target]
  /\ ret' = scoreSegment(SegmentOf(words, k, sep), target)
  /\ UNCHANGED <<dispatch, app, other>>

\* scoreSegment on an input and on the same input with its words reordered
\* and its segment text and target description recased.
ScoreVariant(words, k, target, order, segCase, targetCase) ==
  /\ op = "none"
  /\ op' = "scoreSegmentVariant"
  /\ arg' = [words |-> words, k |-> k, target |-> target,
             order |-> order, segCase |-> segCase, targetCase |-> targetCase]
  /\ ret' = [base    |-> scoreSegment(SegmentOf(words, k, <<" ">>), target),
             variant |-> LET seg == SegmentOf(Reorder(order, words), k, <<" ">>)
                         IN  scoreSegment([name        |-> Recase(segCase, seg.name),
                                           filterLabel |-> Recase(segCase, seg.filterLabel)],
                                          Recase(targetCase, target))]
  /\ UNCHANGED <<dispatch, app, other>>

ScoreNext ==
  \/ \E n \in 0..MaxWords : \E words \in [1..n -> WordPool] : \E k \in 0..n :
       \E sep \in Separators : \E target \in TargetPool : Score(words, k, sep, target)
  \/ \E n \in 1..MaxWords : \E words \in [1..n -> WordPool] : \E k \in {0, n} :
       \E target \in TargetPool :
         \E order \in {"same", "reverse", "rotate"} :
           \E cases \in {<<"upper", "same">>, <<"same", "upper">>, <<"swap", "swap">>,
                         <<"lower", "upper">>} :
             ScoreVariant(words, k, target, order, cases[1], cases[2])

ScoreSpec == Init /\ [][ScoreNext]_vars

\* -------------------------------------------------------- stripHtml calls
\* Pieces of an email's htmlContent.
PiecePool ==
  { <<"<", "p", ">">>, <<" ">>, <<"&", "n", "b", "s", "p", ";">>, <<"x">>, <<"<", "S", "T", "Y", "L", "E", ">", "p", "{", "}", "<", "/", "s", "t", "y", "l", "e", ">">>, <<"&", "l", "t", ";">> }

\* A long paragraph: as many letters as leave room for two more characters
\* under the cap.
Filler == [i \in 1..(TextCap - 2) |-> "a"]

Strip(html) ==
  /\ op = "none"
  /\ op' = "stripHtml"
  /\ arg' = html
  /\ ret' = stripHtml(html)
  /\ UNCHANGED <<dispatch, app, other>>

StripNext ==
  \E k \in 0..MaxPieces : \E pieces \in [1..k -> PiecePool] : \E lead \in {<<>>, Filler} :
    Strip(lead \o Join(pieces, <<>>))

StripSpec == Init /\ [][StripNext]_vars

\* ------------------------------------------------------------ store calls
\* A generated email.
GeneratedEmail(id) == [id |-> id, subject |-> "Offer", htmlContent |-> "<p>Offer</p>"]

\* The emails of the campaigns the store is tried with: c1 has two, c2 one.
EmailsOfCampaign(id) ==
  IF id = "c1" THEN <<GeneratedEmail("e1"), GeneratedEmail("e2")>> ELSE <<GeneratedEmail("e3")>>

\* The campaign handleSave of the review page adds.
NewCampaign(id) ==
  [id |-> id, status |-> "draft", emails |-> EmailsOfCampaign(id),
   approvals |-> <<>>, emailAssignments |-> <<>>]

\* What the Approve tab passes to updateApproval.
ApprovalUpdates ==
  { [legal |-> TRUE], [legal |-> FALSE], [marketing |-> TRUE], [marketing |-> FALSE],
    [notes |-> "ok"] }

StoreAdd(id) ==
  /\ \A i \in 1..Len(store) : store[i].id # id
  /\ store' = addCampaign(store, NewCampaign(id))
  /\ UNCHANGED <<dispatch, calc, flow, ui, other>>

StoreUpdateApproval(campaignId, emailId, approval) ==
  /\ store' = updateApproval(store, campaignId, emailId, approval)
  /\ UNCHANGED <<dispatch, calc, flow, ui, other>>

\* updateCampaign(id, { status: "sent" }), the only update the pages make.
StoreMarkSent(id) ==
  /\ store' = updateCampaign(store, id, [status |-> "sent"])
  /\ UNCHANGED <<dispatch, calc, flow, ui, other>>

StoreNext ==
  \/ \E id \in {"c1", "c2"} : StoreAdd(id)
  \/ \E id \in {"c1", "c2"}, approval \in ApprovalUpdates :
       \E i \in 1..Len(EmailsOfCampaign(id)) :
         StoreUpdateApproval(id, EmailsOfCampaign(id)[i].id, approval)
  \/ \E id \in {"c1", "c2"} : StoreMarkSent(id)

StoreSpec == Init /\ [][StoreNext]_vars

\* -------------------------------------------------------------- the pages
\* navigate(route, { state: { campaignId } }): the page of the route is
\* mounted with fresh component state; a handleSend still in flight keeps
\* running with its component unmounted.
Mount(route, campaignId) ==
  [ui EXCEPT !.route = route,
             !.campaignId = campaignId,
             !.showConfigDialog = FALSE,
             !.isSending = FALSE,
             !.sent = FALSE,
             !.handler = [ui.handler EXCEPT !.mounted = FALSE]]

\* The saved campaign the detail page shows.
Shown == FindCampaign(store, ui.campaignId)

OnDetail == ui.route = "/campaigns/:id" /\ Shown.id # Null

\* Object.values(assignments).reduce((acc, r) => acc + r.length, 0) > 0
HasRecipients(assignments) == \E e \in DOMAIN assignments : Len(assignments[e]) > 0

\* The loop of handleSend that builds the tasks: the emails in order, each
\* with its recipients in order.
RECURSIVE BuildTasks(_, _)
BuildTasks(emails, assignments) ==
  IF emails = <<>> THEN <<>>
  ELSE LET email      == Head(emails)
           recipients == IF email.id \in DOMAIN assignments THEN assignments[email.id] ELSE <<>>
       IN  (IF Len(recipients) = 0 \/ email.htmlContent = "" THEN <<>>
            ELSE [i \in 1..Len(recipients) |->
                    [email |-> email, recipient |-> recipients[i], subject |-> email.subject]])
             \o BuildTasks(Tail(emails), assignments)

\* The create page has generated the emails and shows the review page.
Generate ==
  /\ ui.route = "/campaigns"
  /\ flow.generatedEmails = <<>>
  /\ store = <<>>
  /\ flow' = [generatedEmails |-> EmailsOfCampaign("c1"), emailAssignments |-> <<>>]
  /\ ui' = Mount("/review", Null)
  /\ UNCHANGED <<dispatch, calc, store, other>>

\* ReviewPage.handleSave
HandleSave ==
  /\ ui.route = "/review"
  /\ flow.generatedEmails # <<>>
  /\ store' = addCampaign(store, [id |-> "c1", status |-> "draft",
                                  emails |-> flow.generatedEmails,
                                  approvals |-> <<>>, emailAssignments |-> <<>>])
  /\ ui' = Mount("/campaigns/:id", "c1")
  /\ UNCHANGED <<dispatch, calc, flow, other>>

\* ReviewPage.handleContinue: to the send page without a saved campaign.
HandleContinue ==
  /\ ui.route = "/review"
  /\ flow.generatedEmails # <<>>
  /\ ui' = Mount("/send", Null)
  /\ UNCHANGED <<dispatch, calc, store, flow, other>>

\* The campaigns list, then the card of the campaign.
OpenDetail ==
  /\ ui.route \in {"/send", "/campaigns"}
  /\ FindCampaign(store, "c1").id # Null
  /\ ui' = Mount("/campaigns/:id", "c1")
  /\ UNCHANGED <<dispatch, calc, store, flow, other>>

\* A checkbox of the Approve tab of the email modal.
Approve(emailId, approval) ==
  /\ OnDetail
  /\ ~ui.showConfigDialog
  /\ store' = updateApproval(store, ui.campaignId, emailId, approval)
  /\ UNCHANGED <<dispatch, calc, flow, ui, other>>

\* The send section of the detail page: shown once all emails are approved.
SendSectionShown ==
  /\ OnDetail
  /\ AllApproved(Shown.emails, Shown.approvals)
  /\ Shown.status # "sent"

\* Recipients given to an email on the detail page.
AssignOnDetail(emailId, recipients) ==
  /\ SendSectionShown
  /\ ~ui.showConfigDialog
  /\ store' = setEmailAssignment(store, ui.campaignId, emailId, recipients)
  /\ UNCHANGED <<dispatch, calc, flow, ui, other>>

\* CampaignDetailPage.handleGoToSend
HandleGoToSend ==
  /\ SendSectionShown
  /\ ~ui.showConfigDialog
  /\ flow' = [generatedEmails |-> Shown.emails, emailAssignments |-> <<>>]
  /\ ui' = [Mount("/send", ui.campaignId) EXCEPT !.sendEntry = ui.campaignId]
  /\ UNCHANGED <<dispatch, calc, store, other>>

\* The browser goes back (or forward) to the history entry of the send page,
\* whose location.state still holds the campaign id; the send page leaves at
\* once when there are no generated emails.
HistoryToSend ==
  /\ ui.sendEntry # "none"
  /\ ui.route # "/send"
  /\ ui' = IF flow.generatedEmails = <<>> THEN Mount("/campaigns", Null)
           ELSE Mount("/send", ui.sendEntry)
  /\ UNCHANGED <<dispatch, calc, store, flow, other>>

\* Recipients given to an email on the send page.
SetRecipients(emailId, recipients) ==
  /\ ui.route = "/send"
  /\ ~ui.sent
  /\ ~ui.showConfigDialog
  /\ flow' = [flow EXCEPT !.emailAssignments = Spread(flow.emailAssignments, (emailId :> recipients))]
  /\ UNCHANGED <<dispatch, calc, store, ui, other>>

\* What the page shown passes to the mailing dialog and to handleSend.
PageEmails == IF ui.route = "/send" THEN flow.generatedEmails ELSE Shown.emails

PageAssignments == IF ui.route = "/send" THEN flow.emailAssignments ELSE Shown.emailAssignments

\* The Configure Mailing button
OpenConfig ==
  /\ \/ SendSectionShown
     \/ ui.route = "/send" /\ ~ui.sent
  /\ ~ui.showConfigDialog
  /\ HasRecipients(PageAssignments)
  /\ ui' = [ui EXCEPT !.showConfigDialog = TRUE]
  /\ UNCHANGED <<dispatch, calc, store, flow, other>>

\* onOpenChange(false)
CloseConfig ==
  /\ ui.showConfigDialog
  /\ ui' = [ui EXCEPT !.showConfigDialog = FALSE]
  /\ UNCHANGED <<dispatch, calc, store, flow, other>>

\* handleSend of the page shown, up to `await sendCampaign(tasks)`.
HandleSend ==
  /\ ui.showConfigDialog
  /\ ~ui.isSending
  /\ ui.handler.page = "none"
  /\ LET ts == BuildTasks(PageEmails, PageAssignments)
     IN  IF Len(ts) = 0
           THEN /\ ui' = [ui EXCEPT !.toast = [title |-> "No recipients", description |-> ""]]
                /\ UNCHANGED dispatch
           ELSE /\ StartCall(ts)
                /\ ui' = [ui EXCEPT !.isSending = TRUE,
                                    !.handler = [page           |-> ui.route,
                                                 campaignId     |-> ui.campaignId,
                                                 mounted        |-> TRUE,
                                                 approvedAtSend |->
                                                   LET c == FindCampaign(store, ui.campaignId)
                                                   IN  c.id # Null /\ AllApproved(c.emails, c.approvals)]]
  /\ UNCHANGED <<calc, store, flow, other>>

\* Variant: the campaign is marked as sent whatever the counts.
AfterSendAlwaysMarks(res, threw) ==
  IF threw
    THEN [mark |-> FALSE, toast |-> [title |-> "Send failed", description |-> "Something went wrong."]]
  ELSE [mark  |-> TRUE,
        toast |-> IF Len(res.failed) > 0
                    THEN [title |-> "Sent, failed", description |-> "Could not reach"]
                    ELSE [title |-> "Campaign sent!", description |-> "delivered successfully."]]

\* handleSend after `await sendCampaign(tasks)`: whether the campaign is
\* marked as sent, and the toast shown.
AfterSend(res, threw) ==
  IF threw
    THEN [mark |-> FALSE, toast |-> [title |-> "Send failed", description |-> "Something went wrong."]]
  ELSE IF Len(res.failed) > 0 /\ res.sent = 0
    THEN [mark |-> FALSE, toast |-> [title |-> "Send failed", description |-> res.failed[1].error]]
  ELSE [mark  |-> TRUE,
        toast |-> IF Len(res.failed) > 0
                    THEN [title |-> "Sent, failed", description |-> "Could not reach"]
                    ELSE [title |-> "Campaign sent!", description |-> "delivered successfully."]]

\* handleSend resumes when sendCampaign has settled, and runs to its end
\* (finally included); the settled call is gone.
HandleSendResume ==
  /\ ui.handler.page # "none"
  /\ pc \in {"returned", "rejected"}
  /\ LET r  == AfterSend(result, pc = "rejected")
         on == ui.handler.mounted
     IN  /\ store' = IF r.mark /\ ui.handler.campaignId # Null
                       THEN updateCampaign(store, ui.handler.campaignId, [status |-> "sent"])
                       ELSE store
         /\ ui' = [ui EXCEPT !.toast = r.toast,
                             !.handler = NoHandler,
                             !.isSending = FALSE,
                             !.showConfigDialog = IF r.mark /\ on THEN FALSE ELSE ui.showConfigDialog,
                             !.sent = IF r.mark /\ on /\ ui.handler.page = "/send" THEN TRUE ELSE ui.sent]
  /\ pc' = "idle"
  /\ tasks' = <<>>
  /\ queue' = <<>>
  /\ jobs' = <<>>
  /\ workers' = EmptyBag
  /\ results' = <<>>
  /\ sent' = 0
  /\ failed' = <<>>
  /\ requests' = <<>>
  /\ outcome' = <<>>
  /\ result' = [sent |-> 0, failed |-> <<>>]
  /\ UNCHANGED <<calc, flow, other>>

\* The button of the sent screen: reset(), back to the campaigns.
LeaveSent ==
  /\ ui.route = "/send"
  /\ ui.sent
  /\ flow' = [generatedEmails |-> <<>>, emailAssignments |-> <<>>]
  /\ ui' = Mount("/campaigns", Null)
  /\ UNCHANGED <<dispatch, calc, store, other>>

\* The recipients the first email of the campaign is given: none, or a mail
\* list of two addresses (the second email is left without recipients).
RecipientLists == { <<>>, <<"a@example.com", "b@example.com">> }

AppNext ==
  \/ Generate
  \/ HandleSave
  \/ HandleContinue
  \/ OpenDetail
  \/ \E e \in {"e1", "e2"}, approval \in ApprovalUpdates \ {[notes |-> "ok"]} : Approve(e, approval)
  \/ \E recipients \in RecipientLists : AssignOnDetail("e1", recipients)
  \/ HandleGoToSend
  \/ HistoryToSend
  \/ \E recipients \in RecipientLists : SetRecipients("e1", recipients)
  \/ OpenConfig
  \/ CloseConfig
  \/ HandleSend
  \/ \E j \in DOMAIN jobs, res \in Responses : Resolve(j, res)
  \/ \E w \in BagToSet(workers) : Continue(w)
  \/ Return
  \/ HandleSendResume
  \/ LeaveSent

AppSpec == Init /\ [][AppNext]_vars

\* ------------------------------------------------------------ properties
\* The state of a task in the spec's state machine.
TaskState(i) ==
  CASE jobs[i] = "created"  -> "Pending"
    [] jobs[i] = "awaiting" -> "InFlight"
    [] OTHER -> IF outcome[i] = "ok" THEN "Succeeded" ELSE "Failed"

Terminal == {"Succeeded", "Failed"}

InFlight == { i \in DOMAIN jobs : TaskState(i) = "InFlight" }

Attempts(i) == { k \in DOMAIN requests : requests[k].job = i }

Recipients == { t.recipient : t \in TaskPool }

\* C1: when sendCampaign returns, result.sent + result.failed.length equals
\* the number of tasks, for every task list (the empty one included) and
\* every pattern of send successes and failures.
C1_SentPlusFailedIsK ==
  pc = "returned" => result.sent + Len(result.failed) = Len(tasks)

C1_Witness ==
  /\ pc = "returned"
  /\ Len(tasks) > ConcurrencyLimit
  /\ result.sent > 0
  /\ Len(result.failed) > 1

\* C2: in every reachable state at most 5 tasks have a send call that has
\* started and not yet settled.
C2_AtMostFiveInFlight ==
  Cardinality(InFlight) <= 5

C2_Witness ==
  /\ Len(tasks) > 5
  /\ Cardinality(InFlight) = 5
  /\ \E i \in DOMAIN jobs : TaskState(i) \in Terminal

\* C3: every task gets exactly one send attempt, never two at any time and
\* never zero once it left Pending or the call returned, and the attempt
\* carries the task's recipient as to, its subject, and its email's
\* htmlContent as html.
C3_ExactlyOneAttemptPerTask ==
  /\ \A i \in DOMAIN tasks :
        /\ Cardinality(Attempts(i)) <= 1
        /\ (TaskState(i) # "Pending" \/ pc = "returned") => Cardinality(Attempts(i)) = 1
  /\ \A k \in DOMAIN requests :
        /\ requests[k].job \in DOMAIN tasks
        /\ requests[k].to = tasks[requests[k].job].recipient
        /\ requests[k].subject = tasks[requests[k].job].subject
        /\ requests[k].html = tasks[requests[k].job].email.htmlContent

C3_Witness ==
  /\ pc = "returned"
  /\ Len(tasks) > ConcurrencyLimit
  /\ Len(requests) = Len(tasks)
  /\ \E i \in DOMAIN tasks : outcome[i] = "error"
  /\ \E i, j \in DOMAIN tasks : tasks[i].recipient # tasks[j].recipient

\* C4: a failing send never makes sendCampaign reject, never rejects a job or
\* a worker, and never keeps another task from being attempted: when the call
\* returns every task is Succeeded or Failed, whatever subset of sends failed.
C4_FailureIsIsolated ==
  /\ pc # "rejected"
  /\ \A j \in DOMAIN jobs : jobs[j] # "rejected"
  /\ \A w \in BagToSet(workers) : w.state # "rejected"
  /\ pc = "returned" => \A i \in DOMAIN tasks : TaskState(i) \in Terminal

C4_Witness ==
  /\ pc = "returned"
  /\ Len(tasks) > ConcurrencyLimit
  /\ \A i \in DOMAIN tasks : TaskState(i) = "Failed"

\* C5: the {sent, failed} aggregate is produced only after every task has
\* resolved: once returned no task is Pending or InFlight, the queue is
\* empty, and the returned value is the final value of the accumulators.
C5_ReturnAfterAllResolved ==
  pc = "returned" =>
    /\ \A i \in DOMAIN jobs : jobs[i] \notin {"created", "awaiting"}
    /\ queue = <<>>
    /\ result = [sent |-> sent, failed |-> failed]

C5_Witness ==
  /\ pc = "returned"
  /\ Len(tasks) > ConcurrencyLimit
  /\ Len(results) = Len(tasks)

\* C6: failed holds exactly one entry per task whose send failed, carrying
\* that task's recipient, and none for a task whose send succeeded; sent is
\* the number of tasks whose send succeeded.
C6_FailedNamesTheFailedTasks ==
  pc = "returned" =>
    /\ result.sent = Cardinality({ i \in DOMAIN tasks : outcome[i] = "ok" })
    /\ \A r \in Recipients :
          Cardinality({ k \in DOMAIN result.failed : result.failed[k].recipient = r })
            = Cardinality({ i \in DOMAIN tasks : outcome[i] = "error" /\ tasks[i].recipient = r })
    /\ \A k \in DOMAIN result.failed : result.failed[k].recipient \in Recipients

\* 4 tasks, the sends of tasks 2 and 4 fail.
C6_Witness ==
  /\ pc = "returned"
  /\ Len(tasks) = 4
  /\ tasks[1].recipient # tasks[2].recipient
  /\ outcome = <<"ok", "error", "ok", "error">>
  /\ result.sent = 2
  /\ Len(result.failed) = 2
  /\ \A k \in 1..2 : result.failed[k].recipient = tasks[2].recipient

\* C7: with an empty task sequence no send call is ever made, nothing is left
\* to wait for, and the call resolves to {sent: 0, failed: []}.
C7_EmptyBatch ==
  (pc # "idle" /\ Len(tasks) = 0) =>
    /\ requests = <<>>
    /\ PromiseAll(workers) = "fulfilled"
    /\ pc \in {"running", "returned"}
    /\ pc = "returned" => result = [sent |-> 0, failed |-> <<>>]

C7_Witness ==
  /\ pc = "returned"
  /\ Len(tasks) = 0
  /\ result = [sent |-> 0, failed |-> <<>>]

\* C8: a task moves only Pending -> InFlight -> Succeeded or Failed: never
\* from Pending to a terminal state, never out of a terminal state, never
\* back to Pending.
TaskStepAllowed(a, b) ==
  \/ a = b
  \/ a = "Pending" /\ b = "InFlight"
  \/ a = "InFlight" /\ b \in Terminal

C8_TaskLifecycle ==
  [][\A i \in DOMAIN jobs : TaskStepAllowed(TaskState(i), TaskState(i)')]_vars

C8_Witness ==
  /\ \E i \in DOMAIN jobs : TaskState(i) = "Pending"
  /\ \E i \in DOMAIN jobs : TaskState(i) = "InFlight"
  /\ \E i \in DOMAIN jobs : TaskState(i) = "Succeeded"
  /\ \E i \in DOMAIN jobs : TaskState(i) = "Failed"

\* C9: failed is in completion order: failed changes only when the send of
\* some in-flight task fails, and that task's entry is then added after all
\* earlier entries, wherever the task stood in the submitted list.
C9_FailedInCompletionOrder ==
  [][/\ failed' # failed =>
          \E j \in InFlight :
            /\ TaskState(j)' = "Failed"
            /\ Len(failed') = Len(failed) + 1
            /\ SubSeq(failed', 1, Len(failed)) = failed
            /\ failed'[Len(failed')].recipient = tasks[j].recipient
     /\ \A j \in InFlight : TaskState(j)' = "Failed" => failed' # failed
    ]_vars

\* The later-submitted task 2 failed first and stands first in failed.
C9_Witness ==
  /\ pc = "returned"
  /\ Len(tasks) >= 2
  /\ tasks[1].recipient # tasks[2].recipient
  /\ outcome[1] = "error" /\ outcome[2] = "error"
  /\ Len(result.failed) >= 2
  /\ result.failed[1].recipient = tasks[2].recipient
  /\ result.failed[2].recipient = tasks[1].recipient

\* C10: there is no cancellation: once the dispatch has begun, if every send
\* call eventually settles, the call eventually returns with every task
\* Succeeded or Failed.
C10_DispatchRunsToCompletion ==
  (pc = "running") ~>
    (pc = "returned" /\ \A i \in DOMAIN tasks : TaskState(i) \in Terminal)

C10_Witness ==
  /\ pc = "returned"
  /\ Len(tasks) > ConcurrencyLimit
  /\ \E i \in DOMAIN tasks : TaskState(i) = "Succeeded"
  /\ \E i \in DOMAIN tasks : TaskState(i) = "Failed"

\* C11: a send that never settles blocks only its own worker: every other
\* task is still attempted exactly once and eventually Succeeded or Failed,
\* and sent and failed count exactly the other tasks that settled.
Hung == { i \in DOMAIN outcome : outcome[i] = "never" }

C11_HungSendBlocksOnlyItsWorker ==
  /\ [](Hung # {} =>
          /\ \A i \in DOMAIN tasks : Cardinality(Attempts(i)) <= 1
          /\ sent = Cardinality({ i \in DOMAIN tasks : outcome[i] = "ok" })
          /\ Len(failed) = Cardinality({ i \in DOMAIN tasks : outcome[i] = "error" }))
  /\ (Hung # {}) ~>
        (\A i \in DOMAIN tasks \ Hung :
            TaskState(i) \in Terminal /\ Cardinality(Attempts(i)) = 1)

\* The first task hangs, more tasks than workers, all others settled.
C11_Witness ==
  /\ Len(tasks) > ConcurrencyLimit
  /\ outcome[1] = "never"
  /\ \A i \in DOMAIN tasks \ {1} : TaskState(i) \in Terminal
  /\ sent > 0 /\ Len(failed) > 0
  /\ pc = "running"

\* C12: a malformed task object (one with no email payload) makes the call
\* fail hard: the call never returns normally and the task is never recovered
\* into an entry of failed.
C12_MalformedTaskFailsHard ==
  (\E i \in DOMAIN tasks : "email" \notin DOMAIN tasks[i]) =>
    /\ pc # "returned"
    /\ \A i \in DOMAIN tasks :
          "email" \notin DOMAIN tasks[i] =>
            \A k \in DOMAIN failed : failed[k].recipient # tasks[i].recipient

\* C13: the error recorded for a failed send is the provider's detail
\* whenever the non-2xx body is JSON with a detail, never the generic text;
\* the status text (body not JSON) or HTTP <status> (JSON object without a
\* detail) is recorded only when there is no provider detail.
HasDetail(res) ==
  res.json = "object" /\ "detail" \in DOMAIN res.body /\ res.body.detail # Null

C13_MostSpecificError ==
  (op = "sendEmailOne" /\ ~arg.ok) =>
    /\ ret.out.threw
    /\ ret.job.sent = 0
    /\ Len(ret.job.failed) = 1
    /\ ret.job.failed[1].recipient = TaskA.recipient
    /\ HasDetail(arg) => ret.job.failed[1].error = arg.body.detail
    /\ (~HasDetail(arg) /\ arg.json = "invalid") => ret.job.failed[1].error = arg.statusText
    /\ (~HasDetail(arg) /\ arg.json = "object") =>
          ret.job.failed[1].error = "HTTP " \o ToString(arg.status)

C13_Witness ==
  /\ op = "sendEmailOne"
  /\ arg.status = 502 /\ arg.statusText = "Bad Gateway"
  /\ HasDetail(arg)
  /\ ret.job.failed = <<[recipient |-> "a@example.com", error |-> "SendGrid is down"]>>

\* ------------------------------------------------- segment builder claims
Parsed == op = "parseContactSegments"

\* The content of a string between its first and last non-space character.
NonSpaceAt(s) == { k \in 1..Len(s) : s[k] \notin WhiteSpace }

Stripped(s) ==
  IF NonSpaceAt(s) = {} THEN <<>>
  ELSE SubSeq(s, CHOOSE a \in NonSpaceAt(s) : \A k \in NonSpaceAt(s) : a <= k,
                 CHOOSE b \in NonSpaceAt(s) : \A k \in NonSpaceAt(s) : b >= k)

\* The rows of the input that have a non-empty email.
EmailRows == { i \in 1..Len(arg.contacts) : NonSpaceAt(arg.contacts[i].email) # {} }

NthEmailRow(k) == CHOOSE i \in EmailRows : Cardinality({ j \in EmailRows : j < i }) = k - 1

SegmentsOf(field) == SelectSeq(ret, LAMBDA g : g.field = field)

DistinctValues(field) ==
  { Stripped(arg.contacts[i][field]) : i \in EmailRows } \ {<<>>}

\* C14: a categorical field gets segments only if it has 2 to 8 distinct
\* non-empty trimmed values among the contacts with an email, and then one
\* segment per value; with fewer or more values it gets none.
C14_EnumSegmentsAllOrNothing ==
  Parsed =>
    \A field \in {"membership_level", "country", "city"} :
      LET values == DistinctValues(field)
          segs   == SegmentsOf(field)
      IN  IF Cardinality(values) >= 2 /\ Cardinality(values) <= 8
            THEN /\ Len(segs) = Cardinality(values)
                 /\ { segs[k].name : k \in 1..Len(segs) } = { EnumName(field, v) : v \in values }
            ELSE Len(segs) = 0

\* Eight values in one field, nine in another.
C14_Witness ==
  /\ Parsed
  /\ Cardinality(DistinctValues("membership_level")) = 8
  /\ Len(SegmentsOf("membership_level")) = 8
  /\ Cardinality(DistinctValues("country")) = 9
  /\ Len(SegmentsOf("country")) = 0
  /\ Cardinality(DistinctValues("city")) = 1
  /\ Len(SegmentsOf("city")) = 0

\* C15: in every returned segment the emails have no duplicate entry and
\* stand in the order their rows were first met.
C15_EmailsUnique ==
  Parsed =>
    \A g \in 1..Len(ret) :
      \A a, b \in 1..Len(ret[g].emails) :
        a < b => ret[g].emails[a] # ret[g].emails[b]

\* C16: every entry of every segment's emails is non-empty, has no leading or
\* trailing white space and is the trimmed email of a row with a non-empty
\* email; the entries of the other segments all occur in the catch-all.
C16_EmailsAreTrimmedRowEmails ==
  Parsed =>
    \A g \in 1..Len(ret) :
      \A k \in 1..Len(ret[g].emails) :
        LET e == ret[g].emails[k]
        IN  /\ e # <<>>
            /\ Head(e) \notin WhiteSpace
            /\ e[Len(e)] \notin WhiteSpace
            /\ \E i \in EmailRows : Stripped(arg.contacts[i].email) = e
            /\ \E m \in 1..Len(ret[1].emails) : ret[1].emails[m] = e

\* A row whose email is padded with white space sits in a categorical segment.
C16_Witness ==
  /\ Parsed
  /\ Len(ret) >= 3
  /\ \E i \in EmailRows :
       /\ arg.contacts[i].email # Stripped(arg.contacts[i].email)
       /\ \E g \in 2..Len(ret) : \E k \in 1..Len(ret[g].emails) :
            ret[g].emails[k] = Stripped(arg.contacts[i].email)

StrategyRank(field) ==
  CASE field = "all" -> 0
    [] field = "membership_level" -> 1
    [] field = "country" -> 2
    [] field = "city" -> 3
    [] field = "age" -> 4
    [] field = "membership_startdate" -> 5

IdPrefix(field) ==
  CASE field = "all" -> <<"h", "s", "_", "a", "l", "l">>
    [] field = "membership_level" -> <<"h", "s", "_", "l", "e", "v", "e", "l", "_">>
    [] field = "country" -> <<"h", "s", "_", "c", "o", "u", "n", "t", "r", "y", "_">>
    [] field = "city" -> <<"h", "s", "_", "c", "i", "t", "y", "_">>
    [] field = "age" -> <<"h", "s", "_", "a", "g", "e", "_">>
    [] field = "membership_startdate" -> <<"h", "s", "_", "s", "e", "n", "i", "o", "r", "i", "t", "y", "_">>

CatchAllFirstThenStrategies ==
  /\ Len(ret) >= 1
  /\ ret[1].id = <<"h", "s", "_", "a", "l", "l">>
  /\ \A g \in 2..Len(ret) : ret[g].id # <<"h", "s", "_", "a", "l", "l">>
  /\ Len(ret[1].emails) = Cardinality(EmailRows)
  /\ \A k \in 1..Len(ret[1].emails) :
       ret[1].emails[k] = Stripped(arg.contacts[NthEmailRow(k)].email)
  /\ \A g \in 1..Len(ret) :
       SubSeq(ret[g].id, 1, Len(IdPrefix(ret[g].field))) = IdPrefix(ret[g].field)
  /\ \A a, b \in 1..Len(ret) :
       a < b => StrategyRank(ret[a].field) <= StrategyRank(ret[b].field)

AgeOf(i) == ParseInt(arg.contacts[i].age)

AgeBucket(k) ==
  { i \in EmailRows :
      /\ ~AgeOf(i).isNaN
      /\ AgeOf(i).value >= 0
      /\ CASE k = 1 -> AgeOf(i).value <= 29
           [] k = 2 -> AgeOf(i).value >= 30 /\ AgeOf(i).value <= 45
           [] k = 3 -> AgeOf(i).value >= 46 }

AgeSegmentName == << <<"A", "g", "e", ":", " ", "U", "n", "d", "e", "r", " ", "3", "0">>, <<"A", "g", "e", ":", " ", "3", "0", "U+2013", "4", "5">>, <<"A", "g", "e", ":", " ", "O", "v", "e", "r", " ", "4", "5">> >>

C18_AgeBuckets ==
  Parsed =>
    LET segs     == SegmentsOf("age")
        nonEmpty == { k \in 1..3 : AgeBucket(k) # {} }
    IN  IF Cardinality(nonEmpty) >= 2
          THEN /\ Len(segs) = Cardinality(nonEmpty)
               /\ \A k \in nonEmpty :
                    \E s \in 1..Len(segs) :
                      /\ segs[s].name = AgeSegmentName[k]
                      /\ Len(segs[s].emails) = Cardinality(AgeBucket(k))
                      /\ { segs[s].emails[m] : m \in 1..Len(segs[s].emails) }
                           = { Stripped(arg.contacts[i].email) : i \in AgeBucket(k) }
          ELSE Len(segs) = 0

\* Ages 10, 35 and 60: three segments of one member each.
C18_Witness ==
  /\ Parsed
  /\ Len(arg.contacts) = 3
  /\ arg.contacts[1].age = <<"1", "0">> /\ arg.contacts[2].age = <<"3", "5">> /\ arg.contacts[3].age = <<"6", "0">>
  /\ Len(SegmentsOf("age")) = 3
  /\ \A s \in 1..3 : Len(SegmentsOf("age")[s].emails) = 1
  /\ SegmentsOf("age")[1].name = <<"A", "g", "e", ":", " ", "U", "n", "d", "e", "r", " ", "3", "0">>
  /\ SegmentsOf("age")[2].name = <<"A", "g", "e", ":", " ", "3", "0", "U+2013", "4", "5">>
  /\ SegmentsOf("age")[3].name = <<"A", "g", "e", ":", " ", "O", "v", "e", "r", " ", "4", "5">>

\* ---------------------------------------------------------- parser claims
Blank(s) == \A k \in 1..Len(s) : s[k] \in {" ", "\t", "\n", "\r"}

Commas(s) == Cardinality({ k \in 1..Len(s) : s[k] = "," })

\* One record per data row, each with every header name as key and the empty
\* string under a column beyond the row's last comma.
OneRecordPerRow ==
  /\ Len(ret) = Len(arg.rows)
  /\ \A r \in 1..Len(ret) :
       /\ DOMAIN ret[r] = { arg.header.names[i] : i \in 1..Len(arg.header.names) }
       /\ \A i \in 1..Len(arg.header.names) :
            i > Commas(arg.rows[r]) + 1 => ret[r][arg.header.names[i]] = <<>>

\* C19 as stated: a header row and N data rows give exactly N records, every
\* one with every trimmed header name as key and the empty string for a
\* column the row does not supply, whatever the quoting.
C19_OneRecordPerRow ==
  op = "parseSimpleCsv" => OneRecordPerRow

\* C19 as amended: that holds when the last data row is not blank (the text
\* is trimmed before it is split into lines).
C19_OneRecordPerRowUnlessLastBlank ==
  (op = "parseSimpleCsv" /\ (Len(arg.rows) = 0 \/ ~Blank(arg.rows[Len(arg.rows)]))) =>
    OneRecordPerRow

\* Two rows: one with an unbalanced quote, one that supplies a single column.
C19_Witness ==
  /\ op = "parseSimpleCsv"
  /\ Len(arg.rows) = 2
  /\ arg.rows[1] = <<"\"", ",">>
  /\ arg.rows[2] = <<"x">>
  /\ Len(ret) = 2
  /\ ret[2][<<"b">>] = <<>>

\* C20: quoting every value of a row as the exporter does and parsing the
\* joined row gives the values back, commas and quotes included.
C20_RowRoundTrip ==
  op = "csvRoundTrip" => ret = arg

\* The values a,b and a"b.
C20_Witness ==
  /\ op = "csvRoundTrip"
  /\ arg = << <<"a", ",", "a">>, <<"a", "\"", "a">> >>
  /\ ret = arg

\* ------------------------------------------------------ scoreSegment claims
\* The words of the input longer than 3 characters, by position.
KeptWords == { i \in 1..Len(arg.words) : Len(arg.words[i]) > 3 }

\* C21: the score is the number of kept tokens of the lowercased segment text
\* that occur in the lowercased target description: a natural number, 0 when
\* none occurs, never more than the number of kept tokens.
C21_ScoreCountsTokensInTarget ==
  op = "scoreSegment" =>
    LET hits == { i \in KeptWords :
                    Includes(ToLowerCase(arg.target), ToLowerCase(arg.words[i])) }
    IN  /\ ret \in Nat
        /\ ret = Cardinality(hits)
        /\ ret <= Cardinality(KeptWords)
        /\ (hits = {} => ret = 0)

\* VIP / Gold against "GOLDEN age": the one kept token occurs, the 3-letter
\* one is not counted.
C21_Witness ==
  /\ op = "scoreSegment"
  /\ arg.words = << <<"V", "I", "P">>, <<"G", "o", "l", "d">> >>
  /\ arg.k = 1
  /\ arg.target = <<"G", "O", "L", "D", "E", "N", " ", "a", "g", "e">>
  /\ ret = 1

\* C22: changing the case of the segment text or of the target description,
\* or the order of the segment's tokens, does not change the score.
C22_ScoreIgnoresCaseAndOrder ==
  op = "scoreSegmentVariant" => ret.variant = ret.base

\* A positive score that is kept under a reordering with an upper-cased target.
C22_Witness ==
  /\ op = "scoreSegmentVariant"
  /\ arg.order = "reverse"
  /\ arg.targetCase = "upper"
  /\ Len(arg.words) = 2
  /\ ret.base = 2
  /\ ret.variant = 2

\* --------------------------------------------------------- determinism
\* C23: two runs of parseContactSegments on identical input return identical
\* segment lists.
C23_SameInputSameSegments ==
  op = "parseContactSegmentsTwice" => ret.first = ret.second

\* --------------------------------------------------------- stripHtml claims
NoSpaceRun(s) == \A i \in 1..(Len(s) - 1) : ~(s[i] \in WhiteSpace /\ s[i + 1] \in WhiteSpace)

NoLeadingSpace(s) == s = <<>> \/ s[1] \notin WhiteSpace

NoTrailingSpace(s) == s = <<>> \/ s[Len(s)] \notin WhiteSpace

\* C24 as stated: the text is at most 2000 characters long, has no leading
\* or trailing white space and no run of two or more white-space characters.
C24_TextTrimmedAndCapped ==
  op = "stripHtml" =>
    /\ Len(ret) <= 2000
    /\ NoLeadingSpace(ret)
    /\ NoTrailingSpace(ret)
    /\ NoSpaceRun(ret)

\* C24 as amended: the trailing white space is only excluded for a text
\* shorter than 2000 characters (the cap cuts after the trim).
C24_TextTrimmedThenCapped ==
  op = "stripHtml" =>
    /\ Len(ret) <= 2000
    /\ NoLeadingSpace(ret)
    /\ (Len(ret) < 2000 => NoTrailingSpace(ret))
    /\ NoSpaceRun(ret)

\* A long text with a tag and an entity, cut at the cap right after a space.
C24_Witness ==
  /\ op = "stripHtml"
  /\ Len(arg) > 2000
  /\ Len(ret) = 2000
  /\ ret[2000] = " "
  /\ ret[1999] = "<"

\* ------------------------------------------------------------ segment ids
\* C29: within one parseContactSegments result the segment ids are pairwise
\* distinct.
C29_SegmentIdsDistinct ==
  op = "parseContactSegments" =>
    \A i, j \in 1..Len(ret) : i # j => ret[i].id # ret[j].id

\* ------------------------------------------------------------ start order
\* C30: the sends are started in submission order (the i-th sendEmailOne call
\* of a sendCampaign call is the one of task i), and with 5 or more tasks the
\* first 5 are started before any send has resolved.
C30_StartedInSubmissionOrder ==
  /\ \A i \in 1..Len(requests) : requests[i].job = i /\ requests[i].to = tasks[i].recipient
  /\ (pc # "idle" /\ Len(tasks) >= 5) => Len(requests) >= 5
  /\ (\E j \in DOMAIN outcome : outcome[j] # "none") => Len(requests) >= Min(5, Len(tasks))

\* Six tasks: the sixth send has started, after the first five, once one of
\* them has resolved.
C30_Witness ==
  /\ Len(tasks) = 6
  /\ Len(requests) = 6
  /\ requests[6].job = 6
  /\ \E j \in 1..5 : outcome[j] # "none"
  /\ outcome[6] = "none"

\* ------------------------------------------------------------- reentrancy
\* What a returned call reports is the count of its own tasks: as many sent
\* as its own sends that succeeded, one failure per own send that failed,
\* every failure naming a recipient of its own tasks.
CountsOwnTasks(call) ==
  call.pc = "returned" =>
    /\ call.result.sent + Len(call.result.failed) = Len(call.tasks)
    /\ call.result.sent = Cardinality({ j \in DOMAIN call.outcome : call.outcome[j] = "ok" })
    /\ Len(call.result.failed) = Cardinality({ j \in DOMAIN call.outcome : call.outcome[j] = "error" })
    /\ \A i \in 1..Len(call.result.failed) :
         \E j \in DOMAIN call.tasks : call.result.failed[i].recipient = call.tasks[j].recipient

\* C28: two sendCampaign calls interleaved on one event loop do not share
\* accumulators: each returns sent and failed of its own tasks only.
C28_CallsDoNotShareAccumulators ==
  /\ CountsOwnTasks([pc |-> pc, tasks |-> tasks, outcome |-> outcome, result |-> result])
  /\ CountsOwnTasks(other)

\* Both calls have returned, one with a success and a failure, the other with
\* two failures.
C28_Witness ==
  /\ pc = "returned"
  /\ other.pc = "returned"
  /\ result.sent = 1
  /\ Len(result.failed) = 1
  /\ other.result.sent = 0
  /\ Len(other.result.failed) = 2

\* ------------------------------------------------------------ store claims
\* The status updateApproval leaves a campaign with.
StatusAfterApproval(before, after) ==
  IF before.status = "sent" THEN "sent"
  ELSE IF \A i \in 1..Len(after.emails) :
            /\ after.emails[i].id \in DOMAIN after.approvals
            /\ after.approvals[after.emails[i].id].legal
            /\ after.approvals[after.emails[i].id].marketing
    THEN "approved" ELSE "in_review"

\* C27: after an updateApproval call on a campaign, a sent campaign is still
\* sent, any other is approved exactly when every email has both approvals
\* and in_review otherwise; every other campaign of the store is unchanged.
C27_ApprovalSetsStatus ==
  [][ \A id \in {"c1", "c2"}, e \in {"e1", "e2", "e3"}, approval \in ApprovalUpdates :
        StoreUpdateApproval(id, e, approval) =>
          /\ Len(store') = Len(store)
          /\ \A i \in 1..Len(store) :
               IF store[i].id = id
                 THEN store'[i].status = StatusAfterApproval(store[i], store'[i])
                 ELSE store'[i] = store[i] ]_vars

\* One campaign sent with an approval withdrawn afterwards, the other
\* approved.
C27_Witness ==
  /\ Len(store) = 2
  /\ \E i, j \in 1..2 :
       /\ store[i].id = "c1"
       /\ store[i].status = "sent"
       /\ "e1" \in DOMAIN store[i].approvals
       /\ ~store[i].approvals["e1"].legal
       /\ store[i].approvals["e1"].marketing
       /\ store[j].id = "c2"
       /\ store[j].status = "approved"

\* ------------------------------------------------------------ page claims
\* A campaign of the store becomes sent in this step.
MarkedSent ==
  \E i \in 1..Len(store) : store[i].status # "sent" /\ store'[i].status = "sent"

\* C25: handleSend marks the campaign as sent (store status, sent screen)
\* only when the dispatch reported sent >= 1; when every send failed the
\* status is left as it is and failed[0].error is what is reported; isSending
\* is false again afterwards in every outcome.
C25_MarksSentOnlyWhenSomeSent ==
  /\ [][ HandleSendResume =>
           /\ ~ui'.isSending
           /\ (MarkedSent \/ (ui'.sent /\ ~ui.sent)) => (pc = "returned" /\ result.sent >= 1)
           /\ (pc = "returned" /\ result.sent = 0 /\ Len(result.failed) > 0) =>
                /\ store' = store
                /\ ui'.sent = ui.sent
                /\ ui'.toast.description = result.failed[1].error ]_vars
  /\ [](ui.handler.page = "none" => ~ui.isSending)

\* Every send failed: the campaign is still approved, the provider's message
\* is shown, nothing is being sent.
C25_Witness ==
  /\ Len(store) = 1
  /\ store[1].status = "approved"
  /\ ui.toast = [title |-> "Send failed", description |-> "Provider error"]
  /\ ui.handler.page = "none"
  /\ ~ui.isSending

\* C26: a saved campaign becomes sent only if every one of its emails had
\* both approvals when the send was started.
C26_SentOnlyWhenAllApproved ==
  [][ MarkedSent => ui.handler.approvedAtSend ]_vars
====
